---- MODULE Spec2Model ----
(***************************************************************************)
(* Model of the video verticalization pipelines:                           *)
(*   - the local pipeline of src/src/utils.py (verticalize_one_video,      *)
(*     process_video_segments, create_video_segments,                      *)
(*     concatenate_segments), which drives a local media engine, and       *)
(*   - the cloud pipeline of src/video-vert.py (main,                      *)
(*     verticalize_one_video) over src/src/gcp_transcoder.py               *)
(*     (create_cropped_segment_job, create_concat_job,                     *)
(*     _wait_for_job_completion).                                          *)
(*                                                                         *)
(* Times are carried in whole milliseconds (the timestamps of the crop     *)
(* data have three decimals), pixel quantities are integers.  A Python     *)
(* None is the empty tuple, a present value v is the 1-tuple <<v>>.        *)
(***************************************************************************)
EXTENDS Integers, Sequences, FiniteSets, TLC

VARIABLES
    mode,            \* "local": utils.verticalize_one_video; "all" / "input" / "none": video-vert.py main
    pc,              \* position of the control flow
    nfiles,          \* video-vert.py main: number of .mp4 files found in INPUT_DIR
    vidx,            \* video-vert.py main: index of the video of the batch loop
    successes,       \* video-vert.py main: successes counter
    failures,        \* video-vert.py main: failures counter
    exit_code,       \* video-vert.py main: value returned to SystemExit (None while running)
    result,          \* value returned by the last verticalize_one_video call (None before)
    error,           \* exception that left verticalize_one_video uncaught (None if none)
    info,            \* get_video_info result of the current video: None or <<width, height>>
    crop_data,       \* keyframe list loaded from the crop-data file
    segments,        \* planned segments (start, end, x1)
    artifacts,       \* segment_files (local) / segment_output_uris (cloud)
    encode_requests, \* segment encode requests issued: ffmpeg commands (local) / job payloads (cloud)
    outcomes,        \* per encode request: engine exit status (local) / last job state seen (cloud)
    concat_requests, \* concatenation requests issued: ffmpeg concat runs (local) / concat jobs (cloud)
    concat_outcomes, \* per concatenation request: exit status / last job state seen
    concat_calls,    \* calls of concatenate_segments (local) / create_concat_job (cloud) in the run
    elapsed,         \* seconds slept in the running _wait_for_job_completion call (0 outside one)
    reported,        \* index printed by "Error creating segment {i}" (None if none)
    uploads,         \* number of source uploads to the blob store in the current run
    temp_dir,        \* local scratch directory: "none", "live", "removed"
    gcloud_calls,    \* ensure_transcoder_enabled of the run: the gcloud lookup and runs, with their answers
    ts_str,          \* time codec: the texts handed to successive timestamp_to_seconds calls
    ts_value,        \* time codec: what each call made so far returned or raised
    response,        \* generation step: the text the focus-coordinate oracle answered (None before)
    crop_file,       \* generation step: content of the crop-data file (None while not written)
    timeout_sec      \* timeout_sec of the _wait_for_job_completion calls

vars == <<mode, pc, nfiles, vidx, successes, failures, exit_code, result, error,
          info, crop_data, segments, artifacts, encode_requests, outcomes,
          concat_requests, concat_outcomes, concat_calls, elapsed, reported, uploads,
          temp_dir, gcloud_calls, ts_str, ts_value, response, crop_file,
          timeout_sec>>

codecVars == <<ts_str, ts_value>>
oracleVars == <<response, crop_file>>
batchVars == <<nfiles, vidx, successes, failures, exit_code>>
runVars == <<info, crop_data, segments, artifacts, encode_requests, outcomes,
             concat_requests, concat_outcomes, concat_calls, elapsed, reported, uploads,
             temp_dir, gcloud_calls>>

----------------------------------------------------------------------------
(* Values *)

None == <<>>
Some(v) == <<v>>

\* src/src/utils.py:16-18 and src/video-vert.py:24
CROP_WIDTH == 607
CROP_HEIGHT == 1080
CROP_Y == 0

\* time.sleep(5) of the job poll
PollSleepSec == 5

\* Bounds of the model
MaxKeyframes == 3
NumVideos == 2
\* keyframes per video in a batch run of NumVideos videos
BatchMaxKeyframes == 2
\* timeout_sec of _wait_for_job_completion, scaled down from its default of 3600
JobTimeoutSec == 5
\* timestamp_to_seconds calls of a run of the time codec
MaxCalls == 2
\* items of an array the focus-coordinate oracle answers
MaxItems == 2
\* longest time, in seconds, a get_job call takes
MaxQueryDelay == 2

----------------------------------------------------------------------------
(* Timestamp texts: tuples of one-character strings *)

Digits == <<"0", "1", "2", "3", "4", "5", "6", "7", "8", "9">>

IsDigit(c) == \E i \in 1..10 : Digits[i] = c

DigitVal(c) == (CHOOSE i \in 1..10 : Digits[i] = c) - 1

\* int() of a matched group of decimal digits
RECURSIVE IntOfDigits(_)
IntOfDigits(ds) ==
    IF ds = <<>> THEN 0
    ELSE 10 * IntOfDigits(SubSeq(ds, 1, Len(ds) - 1)) + DigitVal(ds[Len(ds)])

\* re.match(r"(\d{2}):(\d{2})\.(\d{3})", ts_str): anchored at the start only
TimestampMatches(ts) ==
    /\ Len(ts) >= 9
    /\ \A i \in {1, 2, 4, 5, 7, 8, 9} : IsDigit(ts[i])
    /\ ts[3] = ":"
    /\ ts[6] = "."

\* timestamp_to_seconds with the minutes weighted as 100 seconds
timestamp_to_seconds_Minutes100(ts) ==
    LET m == IntOfDigits(SubSeq(ts, 1, 2))
        s == IntOfDigits(SubSeq(ts, 4, 5))
        ms == IntOfDigits(SubSeq(ts, 7, 9))
    IN  (m * 100 + s) * 1000 + ms

\* m * 60 + s + ms / 1000.0, in milliseconds; defined when TimestampMatches(ts),
\* raises ValueError otherwise
timestamp_to_seconds(ts) ==
    LET m == IntOfDigits(SubSeq(ts, 1, 2))
        s == IntOfDigits(SubSeq(ts, 4, 5))
        ms == IntOfDigits(SubSeq(ts, 7, 9))
    IN  (m * 60 + s) * 1000 + ms

\* What a call timestamp_to_seconds(ts) does: it returns the value, or raises
\* ValueError when the pattern does not match
TimestampResult(ts) ==
    IF TimestampMatches(ts)
    THEN <<"returned", timestamp_to_seconds(ts)>>
    ELSE <<"raised", "ValueError">>

\* The timestamp texts the keyframes of the model carry: 0.0 s, 4.0 s, 5.5 s and
\* a text that does not match the pattern
TimestampPool ==
    { <<"0", "0", ":", "0", "0", ".", "0", "0", "0">>,
      <<"0", "0", ":", "0", "4", ".", "0", "0", "0">>,
      <<"0", "0", ":", "0", "5", ".", "5", "0", "0">>,
      <<"5", ".", "5">> }

\* The x1 values the keyframes carry: left of the frame, in range, and beyond
\* the right edge of the narrower sources
X1Pool == {-5, 0, 500}

Keyframes == [timestamp : TimestampPool, x1 : X1Pool]

KeyframeListsUpTo(max) == UNION { [1..n -> Keyframes] : n \in 0..max }

\* The keyframe lists a crop-data file of the model can hold
KeyframeLists == KeyframeListsUpTo(IF mode = "all" THEN BatchMaxKeyframes ELSE MaxKeyframes)

\* Source sizes <<width, height>>: full HD, and a source narrower than the crop
\* with an odd height
Resolutions == { <<1920, 1080>>, <<500, 1081>> }

----------------------------------------------------------------------------
(* Arithmetic helpers *)

Max(a, b) == IF a >= b THEN a ELSE b

Min(a, b) == IF a <= b THEN a ELSE b

\* Python int() of a non-negative quotient n / d
IntDiv(n, d) == n \div d

\* (int(v) // 2) * 2
FloorEven(v) == (v \div 2) * 2

----------------------------------------------------------------------------
(* Segment planning *)

\* True when one of the timestamp_to_seconds calls of a planning loop raises
PlanRaises(data) == \E i \in 1..Len(data) : ~TimestampMatches(data[i].timestamp)

\* LocalSegments with the end of the last two segments left open (the bound of
\* the comparison off by one)
LocalSegments_OffByOne(data) ==
    [i \in 1..Len(data) |->
        [start |-> timestamp_to_seconds(data[i].timestamp),
         end   |-> IF i - 1 < Len(data) - 2
                   THEN Some(timestamp_to_seconds(data[i + 1].timestamp))
                   ELSE None,
         x1    |-> data[i].x1]]

\* src/src/utils.py:201-218: start of keyframe i, end = start of keyframe i+1,
\* None for the last one; keyframe order kept
LocalSegments(data) ==
    [i \in 1..Len(data) |->
        [start |-> timestamp_to_seconds(data[i].timestamp),
         end   |-> IF i - 1 < Len(data) - 1
                   THEN Some(timestamp_to_seconds(data[i + 1].timestamp))
                   ELSE None,
         x1    |-> data[i].x1]]

\* src/video-vert.py:76-86
CloudSegments(data) ==
    [i \in 1..Len(data) |->
        [start |-> timestamp_to_seconds(data[i].timestamp),
         end   |-> IF i - 1 < Len(data) - 1
                   THEN Some(timestamp_to_seconds(data[i + 1].timestamp))
                   ELSE None,
         x1    |-> data[i].x1]]

----------------------------------------------------------------------------
(* Local backend: request construction *)

\* video_resolution of utils.verticalize_one_video: the tuple, or None
VideoResolution(video_info) == video_info

\* src/src/utils.py:190-199: crop_width
LocalCropWidth(video_resolution) ==
    IF video_resolution # None
    THEN IntDiv(video_resolution[2] * 9, 16)
    ELSE CROP_WIDTH

\* src/src/utils.py:190-199: video_height
LocalCropHeight(video_resolution) ==
    IF video_resolution # None THEN video_resolution[2] ELSE CROP_HEIGHT

\* segment_{i:03d}.mp4 in the scratch directory
SegmentFile(i) == [dir |-> "temp_dir", segment |-> i]

\* list.insert(index, x) of Python for a negative index: x goes before the
\* element that is -index places from the end
ListInsert(list, index, x) ==
    LET pos == Max(0, Len(list) + index)
    IN  SubSeq(list, 1, pos) \o <<x>> \o SubSeq(list, pos + 1, Len(list))

\* The argument list before the duration is added; a token is a tuple of its
\* text and the numbers formatted into it
BaseArgv(segment, video_resolution, i) ==
    << <<"ffmpeg">>, <<"-i">>, <<"input_file">>,
       <<"-ss">>, <<"str", segment.start>>,
       <<"-vf">>, <<"crop", LocalCropWidth(video_resolution),
                   LocalCropHeight(video_resolution), segment.x1, CROP_Y>>,
       <<"-c:v">>, <<"libx264">>, <<"-crf">>, <<"23">>,
       <<"-preset">>, <<"veryfast">>, <<"-pix_fmt">>, <<"yuv420p">>,
       <<"-c:a">>, <<"aac">>, <<"-b:a">>, <<"128k">>,
       <<"-avoid_negative_ts">>, <<"make_zero">>,
       <<"-y">>, <<"segment_file", i>> >>

\* LocalArgv with the test "if segment['end']:" in place of "is not None"
LocalArgv_Truthy(segment, video_resolution, i) ==
    IF segment.end # None /\ segment.end[1] # 0
    THEN ListInsert(ListInsert(BaseArgv(segment, video_resolution, i), -2, <<"-t">>),
                    -2, <<"str", segment.end[1] - segment.start>>)
    ELSE BaseArgv(segment, video_resolution, i)

\* src/src/utils.py:229-250: the argument list of the engine for segment i
\* (0-based): "-t" and the duration are inserted when the end is not None
LocalArgv(segment, video_resolution, i) ==
    IF segment.end # None
    THEN ListInsert(ListInsert(BaseArgv(segment, video_resolution, i), -2, <<"-t">>),
                    -2, <<"str", segment.end[1] - segment.start>>)
    ELSE BaseArgv(segment, video_resolution, i)

\* src/src/utils.py:229-250: the ffmpeg command of segment i (0-based);
\* t is the value after "-t", None when the flag is left out
LocalCommand(segment, video_resolution, i) ==
    [ss   |-> segment.start,
     crop |-> [w |-> LocalCropWidth(video_resolution),
               h |-> LocalCropHeight(video_resolution),
               x |-> segment.x1,
               y |-> CROP_Y],
     t    |-> IF segment.end # None
              THEN Some(segment.end[1] - segment.start)
              ELSE None,
     out  |-> SegmentFile(i),
     argv |-> LocalArgv(segment, video_resolution, i)]

\* src/src/utils.py:273-278: one "file '<path>'" line per segment file
RECURSIVE ConcatList(_)
ConcatList(segment_files) ==
    IF segment_files = <<>> THEN <<>>
    ELSE <<[file |-> Head(segment_files)]>> \o ConcatList(Tail(segment_files))

----------------------------------------------------------------------------
(* Cloud backend: request construction *)

\* video_width, video_height of video-vert.verticalize_one_video
CloudDims(video_info) ==
    IF video_info = None THEN <<CROP_WIDTH, CROP_HEIGHT>> ELSE video_info

\* The times of the model, in milliseconds, whose binary64 value
\* x = minutes*60 + seconds + milliseconds/1000 (utils.py:181) lies below the
\* exact time by enough for (x % 1) * 1e9 to fall short of the whole number of
\* nanoseconds: int() of gcp_transcoder.py:105 then gives one nanosecond less
\* (00:01.001 gives nanos 999999). The other times of the model (0, 4000, 5001
\* and 5500 ms) convert exactly.
TruncatedStarts == {1001}

\* The <<start, end>> pairs of the model's times for which the binary64 sum
\* start + (end - start) of gcp_transcoder.py:108 converts to one nanosecond
\* less than the exact end (line 109)
TruncatedEnds == { <<0, 1001>>, <<1001, 1001>>, <<1001, 5001>>, <<4000, 1001>>, <<5500, 1001>> }

\* {"seconds": int(t), "nanos": int((t % 1) * 1e9)} of a time of ms
\* milliseconds, one nanosecond short when truncated (int() truncates toward
\* zero, % takes the sign of the divisor)
SecondsNanos(ms, truncated) ==
    [seconds |-> IF ms >= 0 THEN ms \div 1000 ELSE -((-ms) \div 1000),
     nanos   |-> (ms % 1000) * 1000000 - (IF truncated THEN 1 ELSE 0)]

\* gcp_transcoder.py:105: start_time_offset of start_seconds
TimeOffset(ms) == SecondsNanos(ms, ms \in TruncatedStarts)

\* EndTimeOffset of the duration alone, the start not added
EndTimeOffset_DurationOnly(start, duration) == SecondsNanos(duration, FALSE)

\* gcp_transcoder.py:108-109: end_time_offset of end_total = start + duration
EndTimeOffset(start, duration) ==
    SecondsNanos(start + duration, <<start, start + duration>> \in TruncatedEnds)

\* gs://<bucket>/segments/<base>/<idx:03d>/
SegmentPrefix(idx) == [folder |-> "segments", segment |-> idx]

\* f"{output_gcs_prefix.rstrip('/')}/sd.mp4"
OutputUri(prefix) == [prefix |-> prefix, name |-> "sd.mp4"]

\* src/src/gcp_transcoder.py:87-147: the job payload of one segment
CroppedSegmentJob(output_gcs_prefix, video_width, video_height, crop_width, x1, start_seconds, duration_seconds) ==
    LET crop_width_even == FloorEven(crop_width)
        height_even == FloorEven(video_height)
        x1_int == x1
        max_x1 == Max(0, video_width - crop_width_even)
        x1_clamped == Max(0, Min(x1_int, max_x1))
        left_pixels == x1_clamped
        right_pixels == Max(0, video_width - (x1_clamped + crop_width_even))
    IN  [output_uri |-> output_gcs_prefix,
         crop |-> [top_pixels |-> 0, bottom_pixels |-> 0,
                   left_pixels |-> left_pixels, right_pixels |-> right_pixels],
         edit_atom |->
            [key |-> <<"atom", 0>>, inputs |-> << <<"input", 0>> >>,
             start_time_offset |->
                IF start_seconds # None THEN Some(TimeOffset(start_seconds[1])) ELSE None,
             end_time_offset |->
                IF duration_seconds # None
                THEN Some(EndTimeOffset(IF start_seconds # None THEN start_seconds[1] ELSE 0,
                                        duration_seconds[1]))
                ELSE None],
         height_pixels |-> height_even,
         width_pixels |-> crop_width_even]

\* src/video-vert.py:99-116: the arguments of the segment job of segment idx (0-based)
CloudSegmentJob(seg, video_info, idx) ==
    LET video_width == CloudDims(video_info)[1]
        video_height == CloudDims(video_info)[2]
        duration == IF seg.end # None THEN Some(seg.end[1] - seg.start) ELSE None
    IN  CroppedSegmentJob(SegmentPrefix(idx), video_width, video_height,
                          IntDiv(video_height * 9, 16), seg.x1,
                          Some(seg.start), duration)

\* src/src/gcp_transcoder.py:180-185: inputs and edit atoms of the concat job
RECURSIVE ConcatInputs(_, _)
ConcatInputs(segment_uris, idx) ==
    IF segment_uris = <<>> THEN <<>>
    ELSE <<[key |-> <<"in", idx>>, uri |-> Head(segment_uris)]>>
         \o ConcatInputs(Tail(segment_uris), idx + 1)

\* ConcatEdits with every atom playing the first input
RECURSIVE ConcatEdits_FirstInput(_, _)
ConcatEdits_FirstInput(segment_uris, idx) ==
    IF segment_uris = <<>> THEN <<>>
    ELSE <<[key |-> <<"atom", idx>>, inputs |-> << <<"in", 0>> >>]>>
         \o ConcatEdits_FirstInput(Tail(segment_uris), idx + 1)

RECURSIVE ConcatEdits(_, _)
ConcatEdits(segment_uris, idx) ==
    IF segment_uris = <<>> THEN <<>>
    ELSE <<[key |-> <<"atom", idx>>, inputs |-> << <<"in", idx>> >>]>>
         \o ConcatEdits(Tail(segment_uris), idx + 1)

\* ConcatJob with the width and height passed on as they are given
ConcatJob_Unfloored(segment_uris, width_pixels, height_pixels) ==
    [output_uri |-> [folder |-> "outputs"],
     inputs |-> ConcatInputs(segment_uris, 0),
     edit_list |-> ConcatEdits(segment_uris, 0),
     width_pixels |-> width_pixels,
     height_pixels |-> height_pixels]

\* src/src/gcp_transcoder.py:180-214: the payload of the concat job
ConcatJob(segment_uris, width_pixels, height_pixels) ==
    [output_uri |-> [folder |-> "outputs"],
     inputs |-> ConcatInputs(segment_uris, 0),
     edit_list |-> ConcatEdits(segment_uris, 0),
     width_pixels |-> FloorEven(width_pixels),
     height_pixels |-> FloorEven(height_pixels)]

----------------------------------------------------------------------------
(* Control flow helpers *)

\* The keyframe list, once load_crop_data has returned one
Data == crop_data[1]

InitRun ==
    /\ info = None
    /\ crop_data = None
    /\ segments = <<>>
    /\ artifacts = <<>>
    /\ encode_requests = <<>>
    /\ outcomes = <<>>
    /\ concat_requests = <<>>
    /\ concat_outcomes = <<>>
    /\ concat_calls = 0
    /\ elapsed = 0
    /\ reported = None
    /\ uploads = 0
    /\ temp_dir = "none"
    /\ gcloud_calls = <<>>

\* The locals of a fresh verticalize_one_video call
ResetRun ==
    /\ info' = None
    /\ crop_data' = None
    /\ segments' = <<>>
    /\ artifacts' = <<>>
    /\ encode_requests' = <<>>
    /\ outcomes' = <<>>
    /\ concat_requests' = <<>>
    /\ concat_outcomes' = <<>>
    /\ concat_calls' = 0
    /\ elapsed' = 0
    /\ reported' = None
    /\ uploads' = 0
    /\ temp_dir' = "none"
    /\ gcloud_calls' = <<>>

\* verticalize_one_video returns b to its caller: the caller of
\* utils.verticalize_one_video (mode "local"), or main of video-vert.py, whose
\* batch loop counts it (lines 221-224) and whose single-file branch turns it
\* into the exit status (line 242)
Return(b) ==
    /\ result' = Some(b)
    /\ error' = error
    /\ mode' = mode
    /\ nfiles' = nfiles
    /\ UNCHANGED codecVars
    /\ UNCHANGED oracleVars
    /\ UNCHANGED timeout_sec
    /\ IF mode = "all"
       THEN /\ pc' = "loop"
            /\ vidx' = vidx + 1
            /\ successes' = IF b THEN successes + 1 ELSE successes
            /\ failures' = IF b THEN failures ELSE failures + 1
            /\ exit_code' = exit_code
       ELSE /\ pc' = IF mode = "local" THEN "returned" ELSE "exited"
            /\ exit_code' = IF mode = "local" THEN exit_code
                            ELSE Some(IF b THEN 0 ELSE 1)
            /\ UNCHANGED <<vidx, successes, failures>>

\* An exception leaves verticalize_one_video: neither pipeline nor main of
\* video-vert.py has a handler for it, so the process ends with the traceback
Raise(e) ==
    /\ pc' = "crashed"
    /\ error' = Some(e)
    /\ UNCHANGED <<mode, result>>
    /\ UNCHANGED batchVars
    /\ UNCHANGED codecVars
    /\ UNCHANGED oracleVars
    /\ UNCHANGED timeout_sec

\* A step inside verticalize_one_video that moves on to position p
Goto(p) ==
    /\ pc' = p
    /\ UNCHANGED <<mode, result, error>>
    /\ UNCHANGED batchVars
    /\ UNCHANGED codecVars
    /\ UNCHANGED oracleVars
    /\ UNCHANGED timeout_sec

----------------------------------------------------------------------------
(* Local pipeline: src/src/utils.py *)

\* utils.py:390-405: get_video_info
LocalAnalyze ==
    /\ pc = "l_analyze"
    /\ \E i \in {None} \cup Resolutions : info' = i
    /\ Goto("l_generate")
    /\ UNCHANGED <<crop_data, segments, artifacts, encode_requests, outcomes,
                   concat_requests, concat_outcomes, concat_calls, elapsed, reported, uploads,
                   temp_dir>>
    /\ UNCHANGED gcloud_calls

\* utils.py:407-415: generate_crop_data_with_gemini failed (its own
\* get_video_info call, utils.py:50, returned nothing, or the oracle's answer
\* was refused), or load_crop_data returned None
LocalGenerateFails ==
    /\ pc = "l_generate"
    /\ Return(FALSE)
    /\ UNCHANGED runVars

\* utils.py:407-429: the crop data is generated and loaded
LocalGenerate ==
    /\ pc = "l_generate"
    /\ \E d \in KeyframeLists : crop_data' = Some(d)
    /\ Goto("l_plan")
    /\ UNCHANGED <<info, segments, artifacts, encode_requests, outcomes,
                   concat_requests, concat_outcomes, concat_calls, elapsed, reported, uploads,
                   temp_dir>>
    /\ UNCHANGED gcloud_calls

\* utils.py:316-320 and 190-218: the scratch directory is created and the
\* segments are planned; a timestamp that does not parse raises ValueError
\* through the with block, which removes the directory
LocalPlan ==
    /\ pc = "l_plan"
    /\ IF PlanRaises(Data)
       THEN /\ Raise("ValueError")
            /\ temp_dir' = "removed"
            /\ UNCHANGED segments
       ELSE /\ Goto("l_encode")
            /\ temp_dir' = "live"
            /\ segments' = LocalSegments(Data)
    /\ UNCHANGED <<info, crop_data, artifacts, encode_requests, outcomes,
                   concat_requests, concat_outcomes, concat_calls, elapsed, reported,
                   uploads>>
    /\ UNCHANGED gcloud_calls

\* utils.py:222-255: the engine runs for the next segment and exits with 0
LocalEncode ==
    /\ pc = "l_encode"
    /\ Len(artifacts) < Len(segments)
    /\ LET i == Len(artifacts)
           command == LocalCommand(segments[i + 1], VideoResolution(info), i)
       IN  /\ encode_requests' = Append(encode_requests, command)
           /\ outcomes' = Append(outcomes, "EXIT_0")
           /\ artifacts' = Append(artifacts, command.out)
    /\ Goto("l_encode")
    /\ UNCHANGED <<info, crop_data, segments, concat_requests, concat_outcomes,
                   concat_calls, elapsed, reported, uploads, temp_dir>>
    /\ UNCHANGED gcloud_calls

\* LocalEncodeFails without the return: the loop goes on to the next segment
LocalEncodeFails_Continue ==
    /\ pc = "l_encode"
    /\ Len(artifacts) < Len(segments)
    /\ LET i == Len(artifacts)
           command == LocalCommand(segments[i + 1], VideoResolution(info), i)
       IN  /\ encode_requests' = Append(encode_requests, command)
           /\ outcomes' = Append(outcomes, "EXIT_NONZERO")
           /\ artifacts' = Append(artifacts, command.out)
           /\ reported' = Some(i)
    /\ Goto("l_encode")
    /\ UNCHANGED <<info, crop_data, segments, concat_requests,
                   concat_outcomes, concat_calls, elapsed, uploads, temp_dir>>
    /\ UNCHANGED gcloud_calls

\* utils.py:222-261: the engine exits with a non-zero status: the index is
\* printed and create_video_segments returns None
LocalEncodeFails ==
    /\ pc = "l_encode"
    /\ Len(artifacts) < Len(segments)
    /\ LET i == Len(artifacts)
           command == LocalCommand(segments[i + 1], VideoResolution(info), i)
       IN  /\ encode_requests' = Append(encode_requests, command)
           /\ outcomes' = Append(outcomes, "EXIT_NONZERO")
           /\ reported' = Some(i)
    /\ Goto("l_check")
    /\ UNCHANGED <<info, crop_data, segments, artifacts, concat_requests,
                   concat_outcomes, concat_calls, elapsed, uploads, temp_dir>>
    /\ UNCHANGED gcloud_calls

\* LocalEncodeRaises with a scratch directory that is removed on a normal
\* return only
LocalEncodeRaises_KeepsDir ==
    /\ pc = "l_encode"
    /\ Len(artifacts) < Len(segments)
    /\ LET i == Len(artifacts)
           command == LocalCommand(segments[i + 1], VideoResolution(info), i)
       IN  /\ encode_requests' = Append(encode_requests, command)
           /\ outcomes' = Append(outcomes, "NOT_RUN")
    /\ Raise("OSError")
    /\ UNCHANGED <<info, crop_data, segments, artifacts, concat_requests,
                   concat_outcomes, concat_calls, elapsed, reported, uploads, temp_dir>>
    /\ UNCHANGED gcloud_calls

\* utils.py:252-256 and 316: subprocess.run cannot start the engine (no such
\* program): the OSError is no CalledProcessError, it leaves
\* create_video_segments and the with block, which removes the directory
LocalEncodeRaises ==
    /\ pc = "l_encode"
    /\ Len(artifacts) < Len(segments)
    /\ LET i == Len(artifacts)
           command == LocalCommand(segments[i + 1], VideoResolution(info), i)
       IN  /\ encode_requests' = Append(encode_requests, command)
           /\ outcomes' = Append(outcomes, "NOT_RUN")
    /\ temp_dir' = "removed"
    /\ Raise("OSError")
    /\ UNCHANGED <<info, crop_data, segments, artifacts, concat_requests,
                   concat_outcomes, concat_calls, elapsed, reported, uploads>>
    /\ UNCHANGED gcloud_calls

\* utils.py:263: create_video_segments returns segment_files
LocalEncodeDone ==
    /\ pc = "l_encode"
    /\ Len(artifacts) = Len(segments)
    /\ Goto("l_check")
    /\ UNCHANGED runVars

\* segment_files as process_video_segments sees it: None after a failed encode
SegmentFiles == IF reported # None THEN None ELSE Some(artifacts)

\* "not segment_files": None or the empty list
NotSegmentFiles(segment_files) ==
    IF segment_files = None THEN TRUE ELSE segment_files[1] = <<>>

\* utils.py:322-324: no segment files, process_video_segments returns False
LocalNoSegments ==
    /\ pc = "l_check"
    /\ NotSegmentFiles(SegmentFiles)
    /\ temp_dir' = "removed"
    /\ Return(FALSE)
    /\ UNCHANGED <<info, crop_data, segments, artifacts, encode_requests, outcomes,
                   concat_requests, concat_outcomes, concat_calls, elapsed, reported,
                   uploads>>
    /\ UNCHANGED gcloud_calls

\* utils.py:327 and 265-309: concatenate_segments refuses an empty list, else
\* writes the list and runs the engine once; utils.py:338 returns its result,
\* the with block removes the scratch directory
LocalConcat ==
    /\ pc = "l_check"
    /\ ~NotSegmentFiles(SegmentFiles)
    /\ concat_calls' = concat_calls + 1
    /\ IF NotSegmentFiles(SegmentFiles)
       THEN /\ Return(FALSE)
            /\ UNCHANGED <<concat_requests, concat_outcomes>>
       ELSE /\ concat_requests' =
                  Append(concat_requests, [concat_list |-> ConcatList(SegmentFiles[1])])
            /\ \E ok \in BOOLEAN :
                  /\ concat_outcomes' =
                        Append(concat_outcomes, IF ok THEN "EXIT_0" ELSE "EXIT_NONZERO")
                  /\ Return(ok)
    /\ temp_dir' = "removed"
    /\ UNCHANGED <<info, crop_data, segments, artifacts, encode_requests, outcomes,
                   elapsed, reported, uploads>>
    /\ UNCHANGED gcloud_calls

LocalNext ==
    \/ LocalAnalyze
    \/ LocalGenerateFails
    \/ LocalGenerate
    \/ LocalPlan
    \/ LocalEncode
    \/ LocalEncodeFails
    \/ LocalEncodeRaises
    \/ LocalEncodeDone
    \/ LocalNoSegments
    \/ LocalConcat

----------------------------------------------------------------------------
(* Cloud pipeline: src/video-vert.py over src/src/gcp_transcoder.py *)

\* video-vert.py:41-45: PROJECT_ID is not set
CloudEnvFails ==
    /\ pc = "c_env"
    /\ Return(FALSE)
    /\ UNCHANGED runVars

\* video-vert.py:41-48 and 144-148: PROJECT_ID is set, ensure_transcoder_enabled
\* is called and finds the gcloud tool
CloudEnv ==
    /\ pc = "c_env"
    /\ gcloud_calls' = Append(gcloud_calls, <<"which", TRUE>>)
    /\ Goto("c_check")
    /\ UNCHANGED <<info, crop_data, segments, artifacts, encode_requests, outcomes,
                   concat_requests, concat_outcomes, concat_calls, elapsed, reported,
                   uploads, temp_dir>>

\* EnsureNoGcloud taking the missing tool for success: the run goes on
EnsureNoGcloud_Proceeds ==
    /\ pc = "c_env"
    /\ gcloud_calls' = Append(gcloud_calls, <<"which", FALSE>>)
    /\ Goto("c_analyze")
    /\ UNCHANGED <<info, crop_data, segments, artifacts, encode_requests, outcomes,
                   concat_requests, concat_outcomes, concat_calls, elapsed, reported,
                   uploads, temp_dir>>

\* video-vert.py:144-148 and 48-50: no gcloud on the PATH,
\* ensure_transcoder_enabled returns False and so does the run
EnsureNoGcloud ==
    /\ pc = "c_env"
    /\ gcloud_calls' = Append(gcloud_calls, <<"which", FALSE>>)
    /\ Return(FALSE)
    /\ UNCHANGED <<info, crop_data, segments, artifacts, encode_requests, outcomes,
                   concat_requests, concat_outcomes, concat_calls, elapsed, reported,
                   uploads, temp_dir>>

\* video-vert.py:157-165: the status query; ensure_transcoder_enabled returns
\* True when it reports the capability enabled
EnsureCheck ==
    /\ pc = "c_check"
    /\ \E enabled \in BOOLEAN :
          /\ gcloud_calls' = Append(gcloud_calls, <<"list", enabled>>)
          /\ IF enabled THEN Goto("c_analyze") ELSE Goto("c_enable")
    /\ UNCHANGED <<info, crop_data, segments, artifacts, encode_requests, outcomes,
                   concat_requests, concat_outcomes, concat_calls, elapsed, reported,
                   uploads, temp_dir>>

\* video-vert.py:167-176 and 48-50: the enable attempt; a non-zero exit code
\* ends ensure_transcoder_enabled, and the run, with False
EnsureEnable ==
    /\ pc = "c_enable"
    /\ \E ok \in BOOLEAN :
          /\ gcloud_calls' = Append(gcloud_calls, <<"enable", ok>>)
          /\ IF ok THEN Goto("c_verify") ELSE Return(FALSE)
    /\ UNCHANGED <<info, crop_data, segments, artifacts, encode_requests, outcomes,
                   concat_requests, concat_outcomes, concat_calls, elapsed, reported,
                   uploads, temp_dir>>

\* EnsureVerify going back to the enable attempt while the capability is
\* reported disabled
EnsureVerify_Retries ==
    /\ pc = "c_verify"
    /\ \E enabled \in BOOLEAN :
          /\ gcloud_calls' = Append(gcloud_calls, <<"list", enabled>>)
          /\ IF enabled THEN Goto("c_analyze") ELSE Goto("c_enable")
    /\ UNCHANGED <<info, crop_data, segments, artifacts, encode_requests, outcomes,
                   concat_requests, concat_outcomes, concat_calls, elapsed, reported,
                   uploads, temp_dir>>

\* video-vert.py:178-190 and 48-50: the status query after the enable attempt
\* decides the result
EnsureVerify ==
    /\ pc = "c_verify"
    /\ \E enabled \in BOOLEAN :
          /\ gcloud_calls' = Append(gcloud_calls, <<"list", enabled>>)
          /\ IF enabled THEN Goto("c_analyze") ELSE Return(FALSE)
    /\ UNCHANGED <<info, crop_data, segments, artifacts, encode_requests, outcomes,
                   concat_requests, concat_outcomes, concat_calls, elapsed, reported,
                   uploads, temp_dir>>

\* video-vert.py:57-64: get_video_info
CloudAnalyze ==
    /\ pc = "c_analyze"
    /\ \E i \in {None} \cup Resolutions : info' = i
    /\ Goto("c_generate")
    /\ UNCHANGED <<crop_data, segments, artifacts, encode_requests, outcomes,
                   concat_requests, concat_outcomes, concat_calls, elapsed, reported,
                   uploads, temp_dir>>
    /\ UNCHANGED gcloud_calls

\* video-vert.py:68-70: generate_crop_data_with_gemini failed (its own
\* get_video_info call, utils.py:50, returned nothing, or the oracle's answer
\* was refused); 71-74: load_crop_data returned None
CloudGenerateFails ==
    /\ pc = "c_generate"
    /\ Return(FALSE)
    /\ UNCHANGED runVars

\* NotCropData as "crop_data is None": false of every loaded list
NotCropData_IsNone(d) == FALSE

\* "not crop_data" of video-vert.py:72, on a loaded list
NotCropData(d) == d = <<>>

\* video-vert.py:68-74: the crop data is generated and loaded; an empty list
\* ends the run
CloudGenerate ==
    /\ pc = "c_generate"
    /\ \E d \in KeyframeLists :
          /\ crop_data' = Some(d)
          /\ IF NotCropData(d) THEN Return(FALSE) ELSE Goto("c_plan")
    /\ UNCHANGED <<info, segments, artifacts, encode_requests, outcomes,
                   concat_requests, concat_outcomes, concat_calls, elapsed, reported,
                   uploads, temp_dir>>
    /\ UNCHANGED gcloud_calls

\* video-vert.py:76-86: the segments are planned; a timestamp that does not
\* parse raises ValueError
CloudPlan ==
    /\ pc = "c_plan"
    /\ IF PlanRaises(Data)
       THEN /\ Raise("ValueError")
            /\ UNCHANGED segments
       ELSE /\ Goto("c_upload")
            /\ segments' = CloudSegments(Data)
    /\ UNCHANGED <<info, crop_data, artifacts, encode_requests, outcomes,
                   concat_requests, concat_outcomes, concat_calls, elapsed, reported,
                   uploads, temp_dir>>
    /\ UNCHANGED gcloud_calls

\* video-vert.py:88-95: ensure_bucket and upload_to_gcs, once per run
CloudUpload ==
    /\ pc = "c_upload"
    /\ uploads' = uploads + 1
    /\ Goto("c_submit")
    /\ UNCHANGED <<info, crop_data, segments, artifacts, encode_requests, outcomes,
                   concat_requests, concat_outcomes, concat_calls, elapsed, reported,
                   temp_dir>>
    /\ UNCHANGED gcloud_calls

\* video-vert.py:99-116 and gcp_transcoder.py:84-150: the job of the next
\* segment is created; _wait_for_job_completion starts its clock
CloudSubmit ==
    /\ pc = "c_submit"
    /\ Len(artifacts) < Len(segments)
    /\ LET idx == Len(artifacts)
       IN  encode_requests' =
              Append(encode_requests, CloudSegmentJob(segments[idx + 1], info, idx))
    /\ outcomes' = Append(outcomes, "PENDING")
    /\ elapsed' = 0
    /\ Goto("c_wait")
    /\ UNCHANGED <<info, crop_data, segments, artifacts, concat_requests,
                   concat_outcomes, concat_calls, reported, uploads, temp_dir>>
    /\ UNCHANGED gcloud_calls

\* gcp_transcoder.py:149-159: create_job is refused (PermissionDenied, re-raised
\* as it is or as RuntimeError)
CloudSubmitDenied ==
    /\ pc = "c_submit"
    /\ Len(artifacts) < Len(segments)
    /\ Raise("PermissionDenied")
    /\ UNCHANGED runVars

\* The states get_job can report for a job last seen in state s ("PENDING": the
\* job is created and not yet queried; "RUNNING": it was seen in a non-terminal
\* state)
JobStates(s) ==
    IF s \in {"PENDING", "RUNNING"} THEN {"RUNNING", "SUCCEEDED", "FAILED"} ELSE {s}

\* TimedOut with >= in place of >
TimedOut_AtDeadline(waited) == waited >= timeout_sec

\* gcp_transcoder.py:48: time.time() - start > timeout_sec
TimedOut(waited) == waited > timeout_sec

\* gcp_transcoder.py:41-45 and 160-162, video-vert.py:117: the segment job is
\* seen SUCCEEDED, its output location joins segment_output_uris
CloudPollSucceeded ==
    /\ pc = "c_wait"
    /\ "SUCCEEDED" \in JobStates(outcomes[Len(outcomes)])
    /\ outcomes' = [outcomes EXCEPT ![Len(outcomes)] = "SUCCEEDED"]
    /\ artifacts' = Append(artifacts, OutputUri(encode_requests[Len(outcomes)].output_uri))
    /\ elapsed' = 0
    /\ Goto("c_submit")
    /\ UNCHANGED <<info, crop_data, segments, encode_requests, concat_requests,
                   concat_outcomes, concat_calls, reported, uploads, temp_dir>>
    /\ UNCHANGED gcloud_calls

\* CloudPollFailed without the raise: the failed job is taken as finished
CloudPollFailed_Swallowed ==
    /\ pc = "c_wait"
    /\ "FAILED" \in JobStates(outcomes[Len(outcomes)])
    /\ outcomes' = [outcomes EXCEPT ![Len(outcomes)] = "FAILED"]
    /\ artifacts' = Append(artifacts, OutputUri(encode_requests[Len(outcomes)].output_uri))
    /\ elapsed' = 0
    /\ Goto("c_submit")
    /\ UNCHANGED <<info, crop_data, segments, encode_requests, concat_requests,
                   concat_outcomes, concat_calls, reported, uploads, temp_dir>>
    /\ UNCHANGED gcloud_calls

\* gcp_transcoder.py:46-47: the segment job is seen FAILED
CloudPollFailed ==
    /\ pc = "c_wait"
    /\ "FAILED" \in JobStates(outcomes[Len(outcomes)])
    /\ outcomes' = [outcomes EXCEPT ![Len(outcomes)] = "FAILED"]
    /\ elapsed' = 0
    /\ Raise("RuntimeError")
    /\ UNCHANGED <<info, crop_data, segments, artifacts, encode_requests,
                   concat_requests, concat_outcomes, concat_calls, reported,
                   uploads, temp_dir>>
    /\ UNCHANGED gcloud_calls

\* CloudPollPending without the sleep: the next query follows at once
CloudPollPending_NoSleep ==
    /\ pc = "c_wait"
    /\ \E s \in JobStates(outcomes[Len(outcomes)]) \ {"SUCCEEDED", "FAILED"} :
          outcomes' = [outcomes EXCEPT ![Len(outcomes)] = s]
    /\ IF TimedOut(elapsed)
       THEN /\ Raise("TimeoutError")
            /\ elapsed' = 0
       ELSE /\ Goto("c_wait")
            /\ elapsed' = elapsed
    /\ UNCHANGED <<info, crop_data, segments, artifacts, encode_requests,
                   concat_requests, concat_outcomes, concat_calls, reported, uploads,
                   temp_dir>>
    /\ UNCHANGED gcloud_calls

\* gcp_transcoder.py:48-50: the segment job is seen in a non-terminal state:
\* TimeoutError past the deadline, else sleep and poll again
CloudPollPending ==
    /\ pc = "c_wait"
    /\ \E s \in JobStates(outcomes[Len(outcomes)]) \ {"SUCCEEDED", "FAILED"} :
          outcomes' = [outcomes EXCEPT ![Len(outcomes)] = s]
    /\ IF TimedOut(elapsed)
       THEN /\ Raise("TimeoutError")
            /\ elapsed' = 0
       ELSE /\ Goto("c_wait")
            /\ elapsed' = elapsed + PollSleepSec
    /\ UNCHANGED <<info, crop_data, segments, artifacts, encode_requests,
                   concat_requests, concat_outcomes, concat_calls, reported, uploads,
                   temp_dir>>
    /\ UNCHANGED gcloud_calls

\* video-vert.py:119-129 and gcp_transcoder.py:177-217: every segment job has
\* returned, the concat job is created
CloudConcat ==
    /\ pc = "c_submit"
    /\ Len(artifacts) = Len(segments)
    /\ LET video_height == CloudDims(info)[2]
       IN  concat_requests' =
              Append(concat_requests,
                     ConcatJob(artifacts, IntDiv(video_height * 9, 16), video_height))
    /\ concat_outcomes' = Append(concat_outcomes, "PENDING")
    /\ concat_calls' = concat_calls + 1
    /\ elapsed' = 0
    /\ Goto("c_wait_concat")
    /\ UNCHANGED <<info, crop_data, segments, artifacts, encode_requests, outcomes,
                   reported, uploads, temp_dir>>
    /\ UNCHANGED gcloud_calls

\* gcp_transcoder.py:216-226: create_job of the concat job is refused
CloudConcatDenied ==
    /\ pc = "c_submit"
    /\ Len(artifacts) = Len(segments)
    /\ concat_calls' = concat_calls + 1
    /\ Raise("PermissionDenied")
    /\ UNCHANGED <<info, crop_data, segments, artifacts, encode_requests, outcomes,
                   concat_requests, concat_outcomes, elapsed, reported, uploads,
                   temp_dir>>
    /\ UNCHANGED gcloud_calls

\* gcp_transcoder.py:41-45 and 227-228: the concat job is seen SUCCEEDED
CloudConcatSucceeded ==
    /\ pc = "c_wait_concat"
    /\ "SUCCEEDED" \in JobStates(concat_outcomes[Len(concat_outcomes)])
    /\ concat_outcomes' = [concat_outcomes EXCEPT ![Len(concat_outcomes)] = "SUCCEEDED"]
    /\ elapsed' = 0
    /\ Goto("c_download")
    /\ UNCHANGED <<info, crop_data, segments, artifacts, encode_requests, outcomes,
                   concat_requests, concat_calls, reported, uploads, temp_dir>>
    /\ UNCHANGED gcloud_calls

\* CloudConcatFailed without the raise: the failed concat job is taken as
\* finished
CloudConcatFailed_Swallowed ==
    /\ pc = "c_wait_concat"
    /\ "FAILED" \in JobStates(concat_outcomes[Len(concat_outcomes)])
    /\ concat_outcomes' = [concat_outcomes EXCEPT ![Len(concat_outcomes)] = "FAILED"]
    /\ elapsed' = 0
    /\ Goto("c_download")
    /\ UNCHANGED <<info, crop_data, segments, artifacts, encode_requests, outcomes,
                   concat_requests, concat_calls, reported, uploads, temp_dir>>
    /\ UNCHANGED gcloud_calls

\* gcp_transcoder.py:46-47: the concat job is seen FAILED
CloudConcatFailed ==
    /\ pc = "c_wait_concat"
    /\ "FAILED" \in JobStates(concat_outcomes[Len(concat_outcomes)])
    /\ concat_outcomes' = [concat_outcomes EXCEPT ![Len(concat_outcomes)] = "FAILED"]
    /\ elapsed' = 0
    /\ Raise("RuntimeError")
    /\ UNCHANGED <<info, crop_data, segments, artifacts, encode_requests, outcomes,
                   concat_requests, concat_calls, reported, uploads, temp_dir>>
    /\ UNCHANGED gcloud_calls

\* gcp_transcoder.py:48-50: the concat job is seen in a non-terminal state
CloudConcatPending ==
    /\ pc = "c_wait_concat"
    /\ \E s \in JobStates(concat_outcomes[Len(concat_outcomes)]) \ {"SUCCEEDED", "FAILED"} :
          concat_outcomes' = [concat_outcomes EXCEPT ![Len(concat_outcomes)] = s]
    /\ IF TimedOut(elapsed)
       THEN /\ Raise("TimeoutError")
            /\ elapsed' = 0
       ELSE /\ Goto("c_wait_concat")
            /\ elapsed' = elapsed + PollSleepSec
    /\ UNCHANGED <<info, crop_data, segments, artifacts, encode_requests, outcomes,
                   concat_requests, concat_calls, reported, uploads, temp_dir>>
    /\ UNCHANGED gcloud_calls

\* video-vert.py:132-136: the final output is downloaded, the run returns True
CloudDownload ==
    /\ pc = "c_download"
    /\ Return(TRUE)
    /\ UNCHANGED runVars

CloudNext ==
    \/ CloudEnvFails
    \/ CloudEnv
    \/ EnsureNoGcloud
    \/ EnsureCheck
    \/ EnsureEnable
    \/ EnsureVerify
    \/ CloudAnalyze
    \/ CloudGenerateFails
    \/ CloudGenerate
    \/ CloudPlan
    \/ CloudUpload
    \/ CloudSubmit
    \/ CloudSubmitDenied
    \/ CloudPollSucceeded
    \/ CloudPollFailed
    \/ CloudPollPending
    \/ CloudConcat
    \/ CloudConcatDenied
    \/ CloudConcatSucceeded
    \/ CloudConcatFailed
    \/ CloudConcatPending
    \/ CloudDownload

----------------------------------------------------------------------------
(* main of src/video-vert.py *)

\* main returns code to SystemExit
Exit(code) ==
    /\ pc' = "exited"
    /\ exit_code' = Some(code)
    /\ UNCHANGED <<mode, result, error, vidx, successes, failures>>
    /\ UNCHANGED codecVars
    /\ UNCHANGED oracleVars
    /\ UNCHANGED timeout_sec

\* video-vert.py:203-207: --all, INPUT_DIR is no directory
MainAllNoDir ==
    /\ pc = "main"
    /\ mode = "all"
    /\ Exit(1)
    /\ UNCHANGED nfiles
    /\ UNCHANGED runVars

\* video-vert.py:208-215: --all, the .mp4 files of INPUT_DIR are listed
MainAll ==
    /\ pc = "main"
    /\ mode = "all"
    /\ \E n \in 0..NumVideos :
          /\ nfiles' = n
          /\ IF n = 0
             THEN Exit(0)
             ELSE /\ pc' = "loop"
                  /\ UNCHANGED <<mode, result, error, vidx, successes, failures, exit_code>>
                  /\ UNCHANGED codecVars
                  /\ UNCHANGED oracleVars
                  /\ UNCHANGED timeout_sec
    /\ UNCHANGED runVars

\* video-vert.py:216-221: the batch loop calls verticalize_one_video for the
\* next file
BatchNext ==
    /\ pc = "loop"
    /\ vidx < nfiles
    /\ pc' = "c_env"
    /\ ResetRun
    /\ UNCHANGED <<mode, result, error>>
    /\ UNCHANGED batchVars
    /\ UNCHANGED codecVars
    /\ UNCHANGED oracleVars
    /\ UNCHANGED timeout_sec

\* video-vert.py:225-228: the loop is over, the summary decides the exit status
BatchSummary ==
    /\ pc = "loop"
    /\ vidx >= nfiles
    /\ Exit(IF failures = 0 THEN 0 ELSE 2)
    /\ UNCHANGED nfiles
    /\ UNCHANGED runVars

\* video-vert.py:231-241: --input names a file that does not exist
MainInputMissing ==
    /\ pc = "main"
    /\ mode = "input"
    /\ Exit(1)
    /\ UNCHANGED nfiles
    /\ UNCHANGED runVars

\* video-vert.py:231-242: --input names a file, verticalize_one_video is called
MainInput ==
    /\ pc = "main"
    /\ mode = "input"
    /\ Goto("c_env")
    /\ UNCHANGED runVars

\* video-vert.py:244-245: neither --all nor --input
MainNoInput ==
    /\ pc = "main"
    /\ mode = "none"
    /\ Exit(1)
    /\ UNCHANGED nfiles
    /\ UNCHANGED runVars

MainNext ==
    \/ MainAllNoDir
    \/ MainAll
    \/ BatchNext
    \/ BatchSummary
    \/ MainInputMissing
    \/ MainInput
    \/ MainNoInput

----------------------------------------------------------------------------
(* Specification *)

Init ==
    /\ mode \in {"local", "all", "input", "none"}
    /\ pc = IF mode = "local" THEN "l_analyze" ELSE "main"
    /\ nfiles = 0
    /\ vidx = 0
    /\ successes = 0
    /\ failures = 0
    /\ exit_code = None
    /\ result = None
    /\ error = None
    /\ InitRun
    /\ ts_str = <<>>
    /\ ts_value = <<>>
    /\ response = None
    /\ crop_file = None
    /\ timeout_sec = JobTimeoutSec

Next == LocalNext \/ CloudNext \/ MainNext

Spec == Init /\ [][Next]_vars

\* The program keeps running while it has a step to take: a sleep of the poll
\* loop returns, a call returns
FairSpec == Spec /\ WF_vars(Next)

----------------------------------------------------------------------------
(* The time codec on its own: timestamp_to_seconds called on given texts *)

\* The texts of the calls: texts of the form MM:SS.mmm (one with 60 in the
\* seconds place), and texts that are not of that form: too short, extra
\* characters after or before, an hour component
CodecTexts ==
    { <<"0", "0", ":", "0", "0", ".", "0", "0", "0">>,
      <<"0", "0", ":", "0", "4", ".", "0", "0", "0">>,
      <<"0", "0", ":", "0", "5", ".", "5", "0", "0">>,
      <<"0", "0", ":", "5", "9", ".", "9", "9", "9">>,
      <<"0", "1", ":", "0", "0", ".", "0", "0", "0">>,
      <<"6", "1", ":", "0", "0", ".", "0", "0", "0">>,
      <<"0", "0", ":", "6", "0", ".", "0", "0", "0">>,
      <<"5", ".", "5">>,
      <<"0", "0", ":", "5", ".", "5">>,
      <<"0", "0", ":", "0", "5", ".", "5", "0", "0", "0">>,
      <<"0", "0", ":", "0", "5", ".", "5", "0", "0", "x">>,
      <<"x", "0", "0", ":", "0", "5", ".", "5", "0", "0">>,
      <<"1", ":", "0", "0", ":", "0", "5", ".", "5", "0", "0">> }

TimeCodecInit ==
    /\ mode = "timecodec"
    /\ pc = "t_call"
    /\ nfiles = 0
    /\ vidx = 0
    /\ successes = 0
    /\ failures = 0
    /\ exit_code = None
    /\ result = None
    /\ error = None
    /\ InitRun
    /\ ts_str \in [1..MaxCalls -> CodecTexts]
    /\ ts_value = <<>>
    /\ response = None
    /\ crop_file = None
    /\ timeout_sec = JobTimeoutSec

\* The next call of timestamp_to_seconds: it reads its argument and touches
\* nothing else
TimestampCall ==
    /\ pc = "t_call"
    /\ Len(ts_value) < Len(ts_str)
    /\ ts_value' = Append(ts_value, TimestampResult(ts_str[Len(ts_value) + 1]))
    /\ UNCHANGED <<mode, pc, result, error, ts_str>>
    /\ UNCHANGED batchVars
    /\ UNCHANGED runVars
    /\ UNCHANGED oracleVars
    /\ UNCHANGED timeout_sec

TimeCodecNext == TimestampCall

TimeCodecSpec == TimeCodecInit /\ [][TimeCodecNext]_vars

----------------------------------------------------------------------------
(* The concatenation functions called on their own, on a given artifact list *)

\* The artifact lists of the calls: the empty list, and lists of segment
\* files (mode "concat_local") or of segment output locations ("concat_cloud")
ArtifactLists(m) ==
    UNION { [1..n -> { IF m = "concat_local" THEN SegmentFile(i)
                       ELSE OutputUri(SegmentPrefix(i)) : i \in 0..(MaxKeyframes - 1) }]
            : n \in 0..MaxKeyframes }

ConcatInit ==
    /\ mode \in {"concat_local", "concat_cloud"}
    /\ pc = "k_call"
    /\ nfiles = 0
    /\ vidx = 0
    /\ successes = 0
    /\ failures = 0
    /\ exit_code = None
    /\ result = None
    /\ error = None
    /\ info \in Resolutions
    /\ crop_data = None
    /\ segments = <<>>
    /\ artifacts \in ArtifactLists(mode)
    /\ encode_requests = <<>>
    /\ outcomes = <<>>
    /\ concat_requests = <<>>
    /\ concat_outcomes = <<>>
    /\ concat_calls = 0
    /\ elapsed = 0
    /\ reported = None
    /\ uploads = 0
    /\ temp_dir = IF mode = "concat_local" THEN "live" ELSE "none"
    /\ gcloud_calls = <<>>
    /\ ts_str = <<>>
    /\ ts_value = <<>>
    /\ response = None
    /\ crop_file = None
    /\ timeout_sec = JobTimeoutSec

\* utils.py:265-309: concatenate_segments(segment_files, ...): False for an
\* empty list; else the list file is written and the engine run once, True if
\* it exits with 0 and False otherwise
ConcatenateSegmentsCall ==
    /\ mode = "concat_local"
    /\ pc = "k_call"
    /\ pc' = "returned"
    /\ concat_calls' = concat_calls + 1
    /\ IF NotSegmentFiles(Some(artifacts))
       THEN /\ result' = Some(FALSE)
            /\ UNCHANGED <<concat_requests, concat_outcomes>>
       ELSE /\ concat_requests' =
                  Append(concat_requests, [concat_list |-> ConcatList(artifacts)])
            /\ \E ok \in BOOLEAN :
                  /\ concat_outcomes' =
                        Append(concat_outcomes, IF ok THEN "EXIT_0" ELSE "EXIT_NONZERO")
                  /\ result' = Some(ok)
    /\ UNCHANGED <<mode, error, info, crop_data, segments, artifacts, encode_requests,
                   outcomes, elapsed, reported, uploads, temp_dir, gcloud_calls>>
    /\ UNCHANGED batchVars
    /\ UNCHANGED codecVars
    /\ UNCHANGED oracleVars
    /\ UNCHANGED timeout_sec

\* gcp_transcoder.py:177-227: create_concat_job(segment_uris, ...): the inputs
\* and edit atoms are built from the list, the job is created and the wait
\* for it starts
CreateConcatJobCall ==
    /\ mode = "concat_cloud"
    /\ pc = "k_call"
    /\ concat_requests' =
          Append(concat_requests, ConcatJob(artifacts, IntDiv(info[2] * 9, 16), info[2]))
    /\ concat_outcomes' = Append(concat_outcomes, "PENDING")
    /\ concat_calls' = concat_calls + 1
    /\ elapsed' = 0
    /\ Goto("c_wait_concat")
    /\ UNCHANGED <<info, crop_data, segments, artifacts, encode_requests, outcomes,
                   reported, uploads, temp_dir, gcloud_calls>>

ConcatNext ==
    \/ ConcatenateSegmentsCall
    \/ CreateConcatJobCall
    \/ CloudConcatSucceeded
    \/ CloudConcatFailed
    \/ CloudConcatPending

ConcatSpec == ConcatInit /\ [][ConcatNext]_vars

----------------------------------------------------------------------------
(* The generation step on its own: the oracle's answer, its validation, the
   crop-data file, and the first use of the loaded data *)

\* gemini_functions.py:175: the names every item of the answer must contain
RequiredFields == {"timestamp", "reason", "x1", "y1", "x2", "y2"}

OracleTimestamps == { <<"0", "0", ":", "0", "0", ".", "0", "0", "0">>, <<"5", ".", "5">> }

\* The items of an answered JSON array. kind is the JSON type of the item and
\* names the field names f for which Python's "f in item" is true: the keys of
\* an object, the string elements of an array, the substrings of a string; a
\* number has no "in". timestamp is the value under the key "timestamp" of an
\* object that has it.
OracleItems ==
    { [kind |-> "object", names |-> RequiredFields, timestamp |-> t] : t \in OracleTimestamps }
    \cup { [kind |-> "object", names |-> RequiredFields \ {"x2"},
            timestamp |-> <<"0", "0", ":", "0", "0", ".", "0", "0", "0">>] }
    \cup { [kind |-> k, names |-> n, timestamp |-> <<>>] :
              k \in {"array", "string"}, n \in {RequiredFields, RequiredFields \ {"x2"}} }
    \cup { [kind |-> "number", names |-> {}, timestamp |-> <<>>] }

\* The answers of the oracle: a text that is not JSON, a JSON value that is
\* not an array, and the arrays of up to MaxItems items
OracleResponses ==
    { [json |-> FALSE, array |-> FALSE, items |-> <<>>],
      [json |-> TRUE, array |-> FALSE, items |-> <<>>] }
    \cup { [json |-> TRUE, array |-> TRUE, items |-> s] :
              s \in UNION { [1..n -> OracleItems] : n \in 0..MaxItems } }

\* gemini_functions.py:176-178: the inner loop over required_fields finds a
\* field with "field not in item", or "in" raises TypeError on a number
ItemRejected(item) == item.kind = "number" \/ ~(RequiredFields \subseteq item.names)

\* gemini_functions.py:165-189: extract_video_crop_data after the oracle has
\* answered: <<"Error", message>> for the strings that start with "Error",
\* <<"json", items>> for json.dumps of the parsed array
extract_video_crop_data(resp) ==
    IF ~resp.json THEN <<"Error", "Error decoding JSON response">>
    ELSE IF ~resp.array THEN <<"Error", "Error: Expected array response">>
    ELSE IF \E i \in 1..Len(resp.items) : ItemRejected(resp.items[i])
         THEN LET i == CHOOSE k \in 1..Len(resp.items) :
                          /\ ItemRejected(resp.items[k])
                          /\ \A j \in 1..(k - 1) : ~ItemRejected(resp.items[j])
              IN  IF resp.items[i].kind = "number"
                  THEN <<"Error", "Error processing video">>
                  ELSE <<"Error", "Error: Missing required field">>
         ELSE <<"json", resp.items>>

GenerateInit ==
    /\ mode \in {"gen_local", "gen_cloud"}
    /\ pc = "g_call"
    /\ nfiles = 0
    /\ vidx = 0
    /\ successes = 0
    /\ failures = 0
    /\ exit_code = None
    /\ result = None
    /\ error = None
    /\ info \in {None} \cup Resolutions
    /\ crop_data = None
    /\ segments = <<>>
    /\ artifacts = <<>>
    /\ encode_requests = <<>>
    /\ outcomes = <<>>
    /\ concat_requests = <<>>
    /\ concat_outcomes = <<>>
    /\ concat_calls = 0
    /\ elapsed = 0
    /\ reported = None
    /\ uploads = 0
    /\ temp_dir = "none"
    /\ gcloud_calls = <<>>
    /\ ts_str = <<>>
    /\ ts_value = <<>>
    /\ response \in { Some(r) : r \in OracleResponses }
    /\ crop_file = None
    /\ timeout_sec = JobTimeoutSec

GenerateUnchanged ==
    /\ UNCHANGED <<mode, info, segments, artifacts, encode_requests, outcomes,
                   concat_requests, concat_outcomes, concat_calls, elapsed, reported,
                   uploads, temp_dir, gcloud_calls, response>>
    /\ UNCHANGED batchVars
    /\ UNCHANGED codecVars
    /\ UNCHANGED timeout_sec

\* utils.py:41-84 generate_crop_data_with_gemini, with the caller's test of
\* its result (utils.py:409-411, video-vert.py:68-70). info is what the
\* get_video_info call of line 50 returns. False without a file when that is
\* None or the extracted text starts with "Error"; else the text is written
\* to the crop-data file and the result is True.
GenerateCropData ==
    /\ pc = "g_call"
    /\ IF info = None \/ extract_video_crop_data(response[1])[1] = "Error"
       THEN /\ result' = Some(FALSE)
            /\ pc' = "returned"
            /\ UNCHANGED crop_file
       ELSE /\ crop_file' = Some(extract_video_crop_data(response[1])[2])
            /\ pc' = "g_load"
            /\ UNCHANGED result
    /\ UNCHANGED <<crop_data, error>>
    /\ GenerateUnchanged

\* utils.py:20-39 load_crop_data of the file just written, with the caller's
\* test: "is None" in utils.py:413-415, "not crop_data" in video-vert.py:71-74
LoadCropData ==
    /\ pc = "g_load"
    /\ crop_data' = crop_file
    /\ IF mode = "gen_cloud" /\ crop_file[1] = <<>>
       THEN /\ result' = Some(FALSE)
            /\ pc' = "returned"
       ELSE /\ pc' = "g_plan"
            /\ UNCHANGED result
    /\ UNCHANGED <<crop_file, error>>
    /\ GenerateUnchanged

\* item['timestamp'] raises TypeError on an item that is no object, and
\* timestamp_to_seconds raises ValueError on a text it does not match
ItemRaises(item) == item.kind # "object" \/ ~TimestampMatches(item.timestamp)

\* utils.py:201-207 and video-vert.py:77-80: the loop that reads
\* item['timestamp'] of every loaded item and converts it, before any segment
\* is encoded; the first item that raises ends the process
PlanItems ==
    /\ pc = "g_plan"
    /\ IF \E i \in 1..Len(Data) : ItemRaises(Data[i])
       THEN LET i == CHOOSE k \in 1..Len(Data) :
                          ItemRaises(Data[k]) /\ \A j \in 1..(k - 1) : ~ItemRaises(Data[j])
            IN  /\ error' = Some(IF Data[i].kind # "object" THEN "TypeError" ELSE "ValueError")
                /\ pc' = "crashed"
       ELSE /\ pc' = "g_planned"
            /\ UNCHANGED error
    /\ UNCHANGED <<crop_data, crop_file, result>>
    /\ GenerateUnchanged

GenerateNext == GenerateCropData \/ LoadCropData \/ PlanItems

GenerateSpec == GenerateInit /\ [][GenerateNext]_vars

----------------------------------------------------------------------------
(* The cloud pipeline from the planning on, for keyframe texts beyond those of
   TimestampPool: times that binary64 does not hold exactly, and a text with a
   character after the milliseconds *)

\* 0.0 s, 1.001 s and 5.001 s; 5.001 s followed by one more character, which
\* the pattern matches; and a text it does not match
OffsetTexts ==
    { <<"0", "0", ":", "0", "0", ".", "0", "0", "0">>,
      <<"0", "0", ":", "0", "1", ".", "0", "0", "1">>,
      <<"0", "0", ":", "0", "5", ".", "0", "0", "1">>,
      <<"0", "0", ":", "0", "5", ".", "0", "0", "1", "x">>,
      <<"5", ".", "5">> }

\* The non-empty keyframe lists of these runs
OffsetKeyframeLists ==
    UNION { [1..n -> [timestamp : OffsetTexts, x1 : {500}]] : n \in 1..MaxKeyframes }

\* video-vert.py --input after lines 27-74: the capability was reported
\* enabled, the source analysed and a non-empty crop-data file loaded
OffsetInit ==
    /\ mode = "input"
    /\ pc = "c_plan"
    /\ nfiles = 0
    /\ vidx = 0
    /\ successes = 0
    /\ failures = 0
    /\ exit_code = None
    /\ result = None
    /\ error = None
    /\ info \in Resolutions
    /\ crop_data \in { Some(d) : d \in OffsetKeyframeLists }
    /\ segments = <<>>
    /\ artifacts = <<>>
    /\ encode_requests = <<>>
    /\ outcomes = <<>>
    /\ concat_requests = <<>>
    /\ concat_outcomes = <<>>
    /\ concat_calls = 0
    /\ elapsed = 0
    /\ reported = None
    /\ uploads = 0
    /\ temp_dir = "none"
    /\ gcloud_calls = << <<"which", TRUE>>, <<"list", TRUE>> >>
    /\ ts_str = <<>>
    /\ ts_value = <<>>
    /\ response = None
    /\ crop_file = None
    /\ timeout_sec = JobTimeoutSec

OffsetNext ==
    \/ CloudPlan
    \/ CloudUpload
    \/ CloudSubmit
    \/ CloudSubmitDenied
    \/ CloudPollSucceeded
    \/ CloudPollFailed
    \/ CloudPollPending
    \/ CloudConcat
    \/ CloudConcatDenied
    \/ CloudConcatSucceeded
    \/ CloudConcatFailed
    \/ CloudConcatPending
    \/ CloudDownload

OffsetSpec == OffsetInit /\ [][OffsetNext]_vars

----------------------------------------------------------------------------
(* _wait_for_job_completion called on its own, with a given timeout_sec.
   outcomes is the list of the job states its queries have seen, elapsed the
   last reading of time.time() - start *)

\* Seconds a get_job call can take
QueryDelays == 0..MaxQueryDelay

WaitInit ==
    /\ mode = "wait"
    /\ pc = "w_loop"
    /\ nfiles = 0
    /\ vidx = 0
    /\ successes = 0
    /\ failures = 0
    /\ exit_code = None
    /\ result = None
    /\ error = None
    /\ InitRun
    /\ ts_str = <<>>
    /\ ts_value = <<>>
    /\ response = None
    /\ crop_file = None
    /\ timeout_sec \in 0..JobTimeoutSec

WaitUnchanged ==
    /\ UNCHANGED <<mode, result, info, crop_data, segments, artifacts, encode_requests,
                   concat_requests, concat_outcomes, concat_calls, reported, uploads,
                   temp_dir, gcloud_calls, timeout_sec>>
    /\ UNCHANGED batchVars
    /\ UNCHANGED codecVars
    /\ UNCHANGED oracleVars

\* WaitIteration with the deadline tested at the top of the loop, before the
\* query
WaitIteration_DeadlineFirst ==
    /\ pc = "w_loop"
    /\ IF TimedOut(elapsed)
       THEN /\ pc' = "crashed"
            /\ error' = Some("TimeoutError")
            /\ UNCHANGED <<outcomes, elapsed>>
       ELSE \E s \in {"RUNNING", "SUCCEEDED", "FAILED"}, d \in QueryDelays :
               /\ outcomes' = Append(outcomes, s)
               /\ IF s = "SUCCEEDED"
                  THEN pc' = "returned" /\ error' = error /\ elapsed' = elapsed + d
                  ELSE IF s = "FAILED"
                  THEN pc' = "crashed" /\ error' = Some("RuntimeError") /\ elapsed' = elapsed + d
                  ELSE pc' = pc /\ error' = error /\ elapsed' = elapsed + d + PollSleepSec
    /\ WaitUnchanged

\* gcp_transcoder.py:41-50: one iteration of the loop. get_job is called and
\* its answer looked at first: SUCCEEDED returns the job, FAILED raises
\* RuntimeError; only then is the clock read, and TimeoutError raised past
\* timeout_sec; otherwise the loop sleeps and goes round again
WaitIteration ==
    /\ pc = "w_loop"
    /\ \E s \in {"RUNNING", "SUCCEEDED", "FAILED"}, d \in QueryDelays :
          /\ outcomes' = Append(outcomes, s)
          /\ IF s = "SUCCEEDED"
             THEN pc' = "returned" /\ error' = error /\ elapsed' = elapsed + d
             ELSE IF s = "FAILED"
             THEN pc' = "crashed" /\ error' = Some("RuntimeError") /\ elapsed' = elapsed + d
             ELSE IF TimedOut(elapsed + d)
             THEN pc' = "crashed" /\ error' = Some("TimeoutError") /\ elapsed' = elapsed + d
             ELSE pc' = pc /\ error' = error /\ elapsed' = elapsed + d + PollSleepSec
    /\ WaitUnchanged

WaitNext == WaitIteration

WaitSpec == WaitInit /\ [][WaitNext]_vars

----------------------------------------------------------------------------
(* Vocabulary of the properties *)

IsLocal == mode = "local"

IsCloud == mode \in {"all", "input"}

\* The segments of the run have been planned
Planned == pc \in {"l_encode", "l_check", "c_upload", "c_submit", "c_wait",
                   "c_wait_concat", "c_download"}

\* verticalize_one_video has returned to its caller
Returned == pc \in {"returned", "exited", "loop"} /\ result # None

\* Every timestamp of the list parses and each is smaller than the next
StrictlyIncreasing(data) ==
    /\ ~PlanRaises(data)
    /\ \A i \in 1..(Len(data) - 1) :
          timestamp_to_seconds(data[i].timestamp) < timestamp_to_seconds(data[i + 1].timestamp)

\* Milliseconds of a {"seconds", "nanos"} offset
OffsetMs(offset) == offset.seconds * 1000 + offset.nanos \div 1000000

\* What an encode request asks of the engine: the window (end None when open),
\* the horizontal offset and the size of the crop
LocalView(command) ==
    [start |-> command.ss,
     end   |-> IF command.t = None THEN None ELSE Some(command.ss + command.t[1]),
     x     |-> command.crop.x,
     w     |-> command.crop.w,
     h     |-> command.crop.h]

CloudView(job) ==
    [start |-> OffsetMs(job.edit_atom.start_time_offset[1]),
     end   |-> IF job.edit_atom.end_time_offset = None THEN None
               ELSE Some(OffsetMs(job.edit_atom.end_time_offset[1])),
     x     |-> job.crop.left_pixels,
     w     |-> job.width_pixels,
     h     |-> job.height_pixels]

\* The encode requests of the run, whichever the backend
RequestViews ==
    [k \in 1..Len(encode_requests) |->
        IF IsLocal THEN LocalView(encode_requests[k]) ELSE CloudView(encode_requests[k])]

----------------------------------------------------------------------------
(* C1 *)

\* C1: for a keyframe list of length n >= 1 with strictly increasing
\* timestamps, the planning of either pipeline yields exactly n segments in
\* keyframe order: segment i starts at the timestamp of keyframe i and carries
\* its x1, the end of segment i is the start of segment i+1, and the end of the
\* last segment is open.
C1_SegmentPlan ==
    (Planned /\ Len(Data) >= 1 /\ StrictlyIncreasing(Data)) =>
        /\ Len(segments) = Len(Data)
        /\ \A i \in 1..Len(Data) :
              /\ segments[i].start = timestamp_to_seconds(Data[i].timestamp)
              /\ segments[i].x1 = Data[i].x1
        /\ \A i \in 1..(Len(Data) - 1) :
              segments[i].end = Some(segments[i + 1].start)
        /\ segments[Len(Data)].end = None

C1_Witness ==
    /\ IsLocal
    /\ pc = "l_encode"
    /\ Len(Data) = 3
    /\ StrictlyIncreasing(Data)
    /\ Len(segments) = 3

----------------------------------------------------------------------------
(* C2 *)

\* C2: a concatenation request lists exactly the artifacts of the segments of
\* the run, each once, in keyframe order: line k of the local concat list is
\* the file of segment k; input k of the cloud concat job is the output of
\* segment job k and edit atom k plays input k.
C2_ConcatKeepsOrder ==
    \A r \in 1..Len(concat_requests) :
        IF IsLocal
        THEN LET list == concat_requests[r].concat_list
             IN  /\ Len(list) = Len(segments)
                 /\ \A k \in 1..Len(list) :
                       /\ list[k].file = SegmentFile(k - 1)
                       /\ list[k].file = encode_requests[k].out
        ELSE LET job == concat_requests[r]
             IN  /\ Len(job.inputs) = Len(segments)
                 /\ Len(job.edit_list) = Len(segments)
                 /\ \A k \in 1..Len(job.inputs) :
                       /\ job.inputs[k].uri = OutputUri(SegmentPrefix(k - 1))
                       /\ job.inputs[k].uri = OutputUri(encode_requests[k].output_uri)
                       /\ job.edit_list[k].inputs = <<job.inputs[k].key>>
                 /\ \A j, k \in 1..Len(job.inputs) :
                       job.inputs[j].key = job.inputs[k].key => j = k

C2_Witness ==
    /\ IsCloud
    /\ Len(concat_requests) = 1
    /\ Len(concat_requests[1].inputs) = 3

----------------------------------------------------------------------------
(* C3 *)

\* C3: in the cloud pipeline the concat job is submitted only when the job of
\* every segment of the run has been seen SUCCEEDED; once a segment job has
\* been seen FAILED, or the wait for it has timed out, no concat job is
\* submitted.
C3_ConcatAfterAllSucceeded ==
    IsCloud =>
        /\ (concat_calls > 0 \/ concat_requests # <<>>) =>
              /\ Len(outcomes) = Len(segments)
              /\ \A k \in 1..Len(outcomes) : outcomes[k] = "SUCCEEDED"
        /\ ( \/ \E k \in 1..Len(outcomes) : outcomes[k] = "FAILED"
             \/ /\ error = Some("TimeoutError")
                /\ \E k \in 1..Len(outcomes) : outcomes[k] = "RUNNING" ) =>
              /\ concat_calls = 0
              /\ concat_requests = <<>>

C3_Witness ==
    /\ IsCloud
    /\ Len(segments) = 3
    /\ Len(concat_requests) = 1
    /\ \A k \in 1..3 : outcomes[k] = "SUCCEEDED"

----------------------------------------------------------------------------
(* C4 *)

\* C4: in the local pipeline, when the encode of segment k is the first to
\* exit with a non-zero status, no encode is issued for a later segment, the
\* index k is reported, concatenation is never invoked and the pipeline
\* returns failure.
C4_LocalFailFast ==
    IsLocal =>
        \A k \in 1..Len(outcomes) :
            outcomes[k] = "EXIT_NONZERO" =>
                /\ Len(encode_requests) = k
                /\ \A j \in 1..(k - 1) : outcomes[j] = "EXIT_0"
                /\ reported = Some(k - 1)
                /\ concat_calls = 0
                /\ concat_requests = <<>>
                /\ pc \in {"l_check", "returned"}
                /\ pc = "returned" => result = Some(FALSE)

C4_Witness ==
    /\ IsLocal
    /\ Len(segments) = 3
    /\ outcomes = <<"EXIT_0", "EXIT_NONZERO">>
    /\ pc = "returned"

----------------------------------------------------------------------------
(* C5 *)

\* C5: in batch mode a failure of the pipeline of one video never aborts the
\* batch: when the program ends, every file found has been processed and counted
\* as a success or as a failure.
C5_BatchNeverAborts ==
    (mode = "all" /\ pc \in {"exited", "crashed"}) =>
        /\ pc = "exited"
        /\ successes + failures = nfiles

----------------------------------------------------------------------------
(* C6 *)

\* The duration an encode request asks for: the value after -t (local), the
\* length of the edit window (cloud); None for an open request
RequestDuration(view) == IF view.end = None THEN None ELSE Some(view.end[1] - view.start)

\* C6: when the keyframe timestamps are not strictly increasing the pipeline
\* fails with a validation error: no encode request with a negative duration
\* is issued by either backend, and the run does not return success.
C6_NonMonotonicRejected ==
    /\ \A k \in 1..Len(encode_requests) :
          RequestDuration(RequestViews[k]) # None =>
              RequestDuration(RequestViews[k])[1] >= 0
    /\ (crop_data # None /\ ~PlanRaises(Data) /\ ~StrictlyIncreasing(Data) /\ Returned) =>
          result = Some(FALSE)

----------------------------------------------------------------------------
(* C7 *)

\* C7: with an empty keyframe list the run ends in failure before any segment
\* encode (engine run, source upload, job submission) and before any
\* concatenation is attempted.
C7_EmptyKeyframeList ==
    crop_data = Some(<<>>) =>
        /\ encode_requests = <<>>
        /\ uploads = 0
        /\ concat_calls = 0
        /\ concat_requests = <<>>
        /\ pc # "crashed"
        /\ Returned => result = Some(FALSE)

C7_Witness ==
    /\ IsLocal
    /\ crop_data = Some(<<>>)
    /\ pc = "returned"
    /\ result = Some(FALSE)
    /\ temp_dir = "removed"

----------------------------------------------------------------------------
(* C8 *)

\* C8: for the same source size and the same keyframe list both backends issue
\* the same segment encode requests: request k of a run of one backend has the
\* start, the end-or-open, the horizontal offset and the crop size of the
\* request the other backend builds for segment k.
C8_BackendsEquivalent ==
    info # None =>
        \A k \in 1..Len(encode_requests) :
            IF IsLocal
            THEN LocalView(encode_requests[k])
                    = CloudView(CloudSegmentJob(CloudSegments(Data)[k], info, k - 1))
            ELSE CloudView(encode_requests[k])
                    = LocalView(LocalCommand(LocalSegments(Data)[k], VideoResolution(info), k - 1))

----------------------------------------------------------------------------
(* C9 *)

\* Width and height of the source of the run as the backend takes them
SourceDims == IF IsLocal THEN info ELSE CloudDims(info)

\* The 9:16 crop width of the source, floored to even
CropWidthEven == FloorEven(IntDiv(SourceDims[2] * 9, 16))

\* C9: the horizontal offset of every encode request of either backend lies in
\* [0, max(0, width - crop_width_even)], whatever the crop_x of the keyframe.
C9_OffsetClamped ==
    SourceDims # None =>
        \A k \in 1..Len(encode_requests) :
            /\ RequestViews[k].x >= 0
            /\ RequestViews[k].x <= Max(0, SourceDims[1] - CropWidthEven)

----------------------------------------------------------------------------
(* C10 *)

\* C10: the crop width and the crop height of every encode request of either
\* backend are divisible by 2.
C10_EvenCropSize ==
    \A k \in 1..Len(encode_requests) :
        /\ RequestViews[k].w % 2 = 0
        /\ RequestViews[k].h % 2 = 0

----------------------------------------------------------------------------
(* C11 *)

\* C11: every encode request of either backend keeps the crop window inside
\* the source: crop_x >= 0 and crop_x + crop_width <= source_width, for every
\* source size, a source narrower than the 9:16 crop width included.
C11_CropInsideSource ==
    SourceDims # None =>
        \A k \in 1..Len(encode_requests) :
            /\ RequestViews[k].x >= 0
            /\ RequestViews[k].x + RequestViews[k].w <= SourceDims[1]

----------------------------------------------------------------------------
(* C12 *)

\* C12: the planned segments are contiguous, do not overlap and cover the
\* whole source: the first segment starts at time 0, each segment ends where
\* the next begins at a time not before its own start, and the last segment
\* is open, for every keyframe list.
C12_SegmentsCoverSource ==
    (Planned /\ Len(segments) >= 1) =>
        /\ segments[1].start = 0
        /\ \A i \in 1..(Len(segments) - 1) :
              /\ segments[i].end = Some(segments[i + 1].start)
              /\ segments[i].start <= segments[i + 1].start
        /\ segments[Len(segments)].end = None

----------------------------------------------------------------------------
(* C13 *)

\* The x1 of the keyframe behind encode request k, clamped into the source
ClampedCropX(k) == Max(0, Min(segments[k].x1, Max(0, SourceDims[1] - CropWidthEven)))

\* C13: every cloud segment job carries the margins left = clamped crop_x,
\* right = source_width - (clamped crop_x + crop_width_even), top = bottom = 0,
\* so that left + crop_width_even + right = source_width.
C13_CloudMargins ==
    IsCloud =>
        \A k \in 1..Len(encode_requests) :
            LET crop == encode_requests[k].crop
            IN  /\ crop.left_pixels = ClampedCropX(k)
                /\ crop.right_pixels = SourceDims[1] - (ClampedCropX(k) + CropWidthEven)
                /\ crop.top_pixels = 0
                /\ crop.bottom_pixels = 0
                /\ crop.left_pixels + CropWidthEven + crop.right_pixels = SourceDims[1]

----------------------------------------------------------------------------
(* C14 *)

\* Exactly two digits, a colon, two digits, a dot and three digits
WellFormed(ts) ==
    /\ Len(ts) = 9
    /\ \A i \in {1, 2, 4, 5, 7, 8, 9} : IsDigit(ts[i])
    /\ ts[3] = ":"
    /\ ts[6] = "."

\* The number a well-formed text writes in its minutes, seconds and
\* milliseconds place
MinutesOf(ts) == 10 * DigitVal(ts[1]) + DigitVal(ts[2])
SecondsOf(ts) == 10 * DigitVal(ts[4]) + DigitVal(ts[5])
MillisOf(ts) == 100 * DigitVal(ts[7]) + 10 * DigitVal(ts[8]) + DigitVal(ts[9])

\* (minutes, seconds, milliseconds) of a before that of b
TripleBefore(a, b) ==
    \/ MinutesOf(a) < MinutesOf(b)
    \/ MinutesOf(a) = MinutesOf(b) /\ SecondsOf(a) < SecondsOf(b)
    \/ MinutesOf(a) = MinutesOf(b) /\ SecondsOf(a) = SecondsOf(b) /\ MillisOf(a) < MillisOf(b)

Text_00_05_500 == <<"0", "0", ":", "0", "5", ".", "5", "0", "0">>
Text_61_00_000 == <<"6", "1", ":", "0", "0", ".", "0", "0", "0">>

\* C14: a call of timestamp_to_seconds on a well-formed text MM:SS.mmm returns
\* minutes*60 + seconds + milliseconds/1000 (in milliseconds here: 5500 for
\* 00:05.500 and 3660000 for 61:00.000); it touches no state of the program
\* and gives equal results for equal arguments; and it is strictly increasing
\* in (minutes, seconds, milliseconds) when the seconds are below 60.
C14_TimestampValue ==
    /\ InitRun /\ result = None /\ error = None /\ exit_code = None
    /\ \A i \in 1..Len(ts_value) :
          WellFormed(ts_str[i]) =>
            /\ ts_value[i][1] = "returned"
            /\ ts_value[i][2] = MinutesOf(ts_str[i]) * 60000 + SecondsOf(ts_str[i]) * 1000
                                    + MillisOf(ts_str[i])
            /\ ts_str[i] = Text_00_05_500 => ts_value[i][2] = 5500
            /\ ts_str[i] = Text_61_00_000 => ts_value[i][2] = 3660000
            /\ \A j \in 1..Len(ts_value) :
                  WellFormed(ts_str[j]) =>
                    /\ ts_str[i] = ts_str[j] => ts_value[i] = ts_value[j]
                    /\ ( /\ SecondsOf(ts_str[i]) < 60
                         /\ SecondsOf(ts_str[j]) < 60
                         /\ TripleBefore(ts_str[i], ts_str[j]) )
                       => ts_value[i][2] < ts_value[j][2]

\* Both calls are made, on 61:00.000 and then on 00:05.500
C14_Witness ==
    /\ ts_str = <<Text_61_00_000, Text_00_05_500>>
    /\ Len(ts_value) = 2
    /\ ts_value[1][1] = "returned"
    /\ ts_value[2][1] = "returned"

----------------------------------------------------------------------------
(* C15 *)

\* C15: a call of timestamp_to_seconds on a text that is not exactly two
\* digits, a colon, two digits, a dot and three digits raises the format
\* error: there is no partial parse.
C15_MalformedRejected ==
    \A i \in 1..Len(ts_value) :
        ~WellFormed(ts_str[i]) => ts_value[i][1] = "raised"

----------------------------------------------------------------------------
(* C16 *)

\* The places of the argument list that hold the duration flag
DurationFlags(argv) == { p \in 1..Len(argv) : argv[p] = <<"-t">> }

\* C16: in the local backend the request of the final, open-ended segment
\* carries no duration flag; the request of every other segment, one whose end
\* time is 0 included, carries the flag once, immediately followed by
\* end - start, and these two stand right before the overwrite flag and the
\* output path that end the argument list.
C16_DurationFlag ==
    IsLocal =>
        \A k \in 1..Len(encode_requests) :
            LET argv == encode_requests[k].argv
                n == Len(argv)
            IN  IF k = Len(segments)
                THEN DurationFlags(argv) = {}
                ELSE /\ DurationFlags(argv) = {n - 3}
                     /\ argv[n - 2] = <<"str", segments[k].end[1] - segments[k].start>>
                     /\ argv[n - 1] = <<"-y">>
                     /\ argv[n] = <<"segment_file", encode_requests[k].out.segment>>

\* Both segments of a two-keyframe list are encoded, the first one ending at
\* time 0
C16_Witness ==
    /\ IsLocal
    /\ Len(segments) = 2
    /\ segments[1].end = Some(0)
    /\ Len(encode_requests) = 2
    /\ outcomes = <<"EXIT_0", "EXIT_0">>

----------------------------------------------------------------------------
(* C17 *)

\* process_video_segments has ended: it returned, or an error left it
ProcessEnded == IsLocal /\ pc \in {"returned", "crashed"} /\ crop_data # None

\* C17: once process_video_segments has ended, the scratch directory of the
\* segment files and the concat list is gone, whichever way it ended: success,
\* a failed segment encode, a failed concatenation, an error raised while
\* planning or encoding.
C17_ScratchRemoved ==
    /\ ProcessEnded => temp_dir = "removed"
    /\ IsLocal /\ temp_dir = "live" => pc \in {"l_encode", "l_check"}

\* An error raised by the second encode has left process_video_segments
C17_Witness ==
    /\ IsLocal
    /\ pc = "crashed"
    /\ error = Some("OSError")
    /\ outcomes = <<"EXIT_0", "NOT_RUN">>
    /\ temp_dir = "removed"

----------------------------------------------------------------------------
(* C18 *)

\* The control is inside a _wait_for_job_completion call
Waiting == pc \in {"c_wait", "c_wait_concat"}

\* One iteration of the poll loop of a segment job (seen: the job state the
\* iteration observes): it ends the wait in exactly one of three ways, or
\* sleeps and stays in the loop with the clock advanced
SegmentPoll ==
    LET seen == outcomes'[Len(outcomes')]
    IN  \/ seen = "SUCCEEDED" /\ pc' = "c_submit" /\ error' = None
        \/ seen = "FAILED" /\ pc' = "crashed" /\ error' = Some("RuntimeError")
        \/ /\ seen = "RUNNING" /\ elapsed > JobTimeoutSec
           /\ pc' = "crashed" /\ error' = Some("TimeoutError")
        \/ /\ seen = "RUNNING" /\ elapsed <= JobTimeoutSec
           /\ pc' = "c_wait" /\ error' = None /\ elapsed' = elapsed + PollSleepSec

\* The same for the concat job
ConcatPoll ==
    LET seen == concat_outcomes'[Len(concat_outcomes')]
    IN  \/ seen = "SUCCEEDED" /\ pc' = "c_download" /\ error' = None
        \/ seen = "FAILED" /\ pc' = "crashed" /\ error' = Some("RuntimeError")
        \/ /\ seen = "RUNNING" /\ elapsed > JobTimeoutSec
           /\ pc' = "crashed" /\ error' = Some("TimeoutError")
        \/ /\ seen = "RUNNING" /\ elapsed <= JobTimeoutSec
           /\ pc' = "c_wait_concat" /\ error' = None /\ elapsed' = elapsed + PollSleepSec

\* C18: waiting for a cloud job ends in exactly one of three ways: it returns
\* when the job is seen SUCCEEDED, raises the encode error when it is seen
\* FAILED, raises the timeout error once the elapsed time exceeds the timeout
\* with the job still not terminal. Nothing is retried: no job is submitted
\* during a wait and nothing runs after a raised error. With the clock
\* advancing, every wait ends.
C18_WaitOutcomes ==
    /\ [][ /\ pc = "c_wait" => SegmentPoll
           /\ pc = "c_wait_concat" => ConcatPoll
           /\ Waiting => /\ encode_requests' = encode_requests
                         /\ concat_requests' = concat_requests
           /\ pc # "crashed" ]_vars
    /\ Waiting ~> ~Waiting

\* The wait for the second segment job has ended with the timeout error
C18_Witness ==
    /\ IsCloud
    /\ pc = "crashed"
    /\ error = Some("TimeoutError")
    /\ outcomes = <<"SUCCEEDED", "RUNNING">>

----------------------------------------------------------------------------
(* C19 *)

\* The gcloud runs ensure_transcoder_enabled has made so far, in order
GcloudRuns == SelectSeq(gcloud_calls, LAMBDA c : c[1] # "which")

\* The places of GcloudRuns that hold a run of the given kind
RunsOf(cmd) == { i \in 1..Len(GcloudRuns) : GcloudRuns[i][1] = cmd }

\* A status query of the call has reported the capability enabled
ReportedEnabled == \E i \in RunsOf("list") : GcloudRuns[i][2]

\* C19: in one pipeline run ensure_transcoder_enabled makes no enable attempt
\* when its first status query reports the capability enabled; otherwise it
\* makes at most one enable attempt, followed by at most one re-verification;
\* if the capability is still reported disabled after that, the run returns
\* failure; and a run whose check has not succeeded uploads nothing and
\* submits no job.
C19_EnsureOneShot ==
    IsCloud =>
        /\ Cardinality(RunsOf("enable")) <= 1
        /\ Cardinality(RunsOf("list")) <= 2
        /\ Len(GcloudRuns) >= 1 => GcloudRuns[1][1] = "list"
        /\ (Len(GcloudRuns) >= 1 /\ GcloudRuns[1][2]) => Len(GcloudRuns) = 1
        /\ Len(GcloudRuns) >= 2 => GcloudRuns[2][1] = "enable"
        /\ Len(GcloudRuns) >= 3 => GcloudRuns[2][2] /\ GcloudRuns[3][1] = "list"
        /\ (Len(GcloudRuns) = 3 /\ ~GcloudRuns[3][2]) =>
              (Returned /\ result = Some(FALSE))
        /\ ~ReportedEnabled =>
              /\ uploads = 0
              /\ encode_requests = <<>>
              /\ concat_requests = <<>>
              /\ concat_calls = 0

\* The capability is still reported disabled after the enable attempt, and the
\* run has returned failure
C19_Witness ==
    /\ mode = "input"
    /\ GcloudRuns = << <<"list", FALSE>>, <<"enable", TRUE>>, <<"list", FALSE>> >>
    /\ pc = "exited"
    /\ result = Some(FALSE)
    /\ uploads = 0

----------------------------------------------------------------------------
(* C20 *)

\* An encode request of the run has failed: the engine exited non-zero or
\* could not be run, the job was seen FAILED, or the wait for it timed out
EncodeFailed ==
    \E k \in 1..Len(outcomes) :
        \/ outcomes[k] \in {"EXIT_NONZERO", "NOT_RUN", "FAILED"}
        \/ outcomes[k] = "RUNNING" /\ error = Some("TimeoutError")

\* The steps of a run are taken in the order ANALYZE, GENERATE_PLAN,
\* ENCODE_SEGMENTS, CONCATENATE, DONE, and none of them twice
StepsInOrder ==
    /\ segments # <<>> => crop_data # None
    /\ encode_requests # <<>> => segments # <<>>
    /\ Len(encode_requests) <= Len(segments)
    /\ concat_calls > 0 =>
          /\ Len(outcomes) = Len(segments)
          /\ \A k \in 1..Len(outcomes) : outcomes[k] \in {"EXIT_0", "SUCCEEDED"}
    /\ concat_calls <= 1
    /\ Len(concat_requests) <= 1
    /\ uploads <= 1
    /\ (Returned /\ result = Some(TRUE)) =>
          /\ concat_calls = 1
          /\ concat_outcomes \in { <<"EXIT_0">>, <<"SUCCEEDED">> }

\* A failed GENERATE_PLAN, ENCODE_SEGMENTS or CONCATENATE ends the run: no
\* later step is taken and the run does not succeed
LaterFailuresEndRun ==
    /\ crop_data = None => (segments = <<>> /\ encode_requests = <<>> /\ concat_calls = 0)
    /\ EncodeFailed =>
          /\ concat_calls = 0
          /\ \A k \in 1..(Len(outcomes) - 1) : outcomes[k] \in {"EXIT_0", "SUCCEEDED"}
          /\ result # Some(TRUE) \/ ~Returned
    /\ (concat_outcomes # <<>> /\ concat_outcomes[1] \in {"EXIT_NONZERO", "FAILED"}) =>
          (result # Some(TRUE) \/ ~Returned)

\* GENERATE_PLAN has been executed in a run whose ANALYZE step failed
\* (get_video_info returned nothing)
PlanAfterFailedAnalyze == crop_data # None /\ info = None

----------------------------------------------------------------------------
(* C21 *)

\* The run of video-vert.py is over: main returned, or an exception left it
MainEnded == mode # "local" /\ pc \in {"exited", "crashed"}

\* The exit status of the process: the value main returned to sys.exit, or 1
\* when an uncaught exception ended the interpreter
ExitStatus == IF pc = "crashed" THEN 1 ELSE exit_code[1]

\* A video of the batch run failed: it was counted as a failure, or its
\* pipeline ended with an error
BatchVideoFailed == failures >= 1 \/ pc = "crashed"

\* What the exit status is when main has returned it
ReturnedStatus ==
    /\ mode = "all" =>
          /\ successes + failures = nfiles
          /\ failures >= 1 => exit_code = Some(2)
          /\ (nfiles >= 1 /\ failures = 0) => exit_code = Some(0)
          /\ exit_code = Some(0) => failures = 0
          /\ exit_code = Some(1) => (nfiles = 0 /\ result = None)
    /\ mode = "input" =>
          /\ result = Some(TRUE) => exit_code = Some(0)
          /\ result # Some(TRUE) => exit_code = Some(1)
    /\ mode = "none" => exit_code = Some(1)

\* C21: the exit status is 0 exactly when every processed video succeeded, 2
\* when a batch run had at least one failed video, and 1 when the input is
\* missing, no input is specified or a single-file run failed; in a batch run
\* the success count plus the failure count equals the number of .mp4 files
\* found.
C21_ExitStatus ==
    MainEnded =>
        /\ pc = "exited" => ReturnedStatus
        /\ mode = "all" =>
              /\ BatchVideoFailed => ExitStatus = 2
              /\ successes + failures = nfiles
        /\ mode = "input" => (ExitStatus = 0 <=> (pc = "exited" /\ result = Some(TRUE)))
        /\ ExitStatus \in {0, 1, 2}

----------------------------------------------------------------------------
(* C22 *)

\* The call of the concatenation function has been made
ConcatCalled == concat_calls > 0

\* C22: a call of concatenate_segments or of create_concat_job on an empty
\* artifact list fails without running the media engine and without
\* submitting a job.
C22_EmptyConcatFails ==
    (ConcatCalled /\ artifacts = <<>>) =>
        /\ concat_requests = <<>>
        /\ concat_outcomes = <<>>
        /\ pc \in {"returned", "crashed"}
        /\ pc = "returned" => result = Some(FALSE)

----------------------------------------------------------------------------
(* C23 *)

\* The answer is a JSON array whose every element is an object carrying all
\* six fields
SchemaOk(resp) ==
    /\ resp.json
    /\ resp.array
    /\ \A i \in 1..Len(resp.items) :
          resp.items[i].kind = "object" /\ RequiredFields \subseteq resp.items[i].names

\* C23: when the answer of the focus-coordinate oracle is not a JSON array
\* whose every element carries all of timestamp, reason, x1, y1, x2, y2, the
\* generation step fails: it returns False, no crop-data file is written, and
\* the run never gets to encode a segment or submit a job.
C23_MalformedResponseFails ==
    (mode \in {"gen_local", "gen_cloud"} /\ pc # "g_call" /\ ~SchemaOk(response[1])) =>
        /\ result = Some(FALSE)
        /\ crop_file = None
        /\ pc # "g_planned"
        /\ encode_requests = <<>>

----------------------------------------------------------------------------
(* C24 *)

\* The keyframes of the scenario: 0.0 s with x1 = 0 and 4.0 s with x1 = 500
ScenarioKeyframes ==
    << [timestamp |-> <<"0", "0", ":", "0", "0", ".", "0", "0", "0">>, x1 |-> 0],
       [timestamp |-> <<"0", "0", ":", "0", "4", ".", "0", "0", "0">>, x1 |-> 500] >>

\* The two segment requests of the scenario: [0.0, 4.0) at offset 0 and
\* [4.0, open) at offset 500, both with a 607x1080 crop
ScenarioViews ==
    << [start |-> 0, end |-> Some(4000), x |-> 0, w |-> 607, h |-> 1080],
       [start |-> 4000, end |-> None, x |-> 500, w |-> 607, h |-> 1080] >>

InScenario == info = <<1920, 1080>> /\ crop_data = Some(ScenarioKeyframes)

\* C24: for a 1920x1080 source with keyframes at 0.0 s (x1 = 0) and 4.0 s
\* (x1 = 500), each backend issues exactly 2 segment requests, the first for
\* [0.0, 4.0) at offset 0 and the second for [4.0, open) at offset 500, each
\* with crop size 607x1080, followed by one concatenation of the two artifacts
\* in that order.
C24_EndToEnd ==
    InScenario =>
        /\ Len(encode_requests) <= 2
        /\ \A k \in 1..Len(encode_requests) : RequestViews[k] = ScenarioViews[k]
        /\ Len(concat_requests) <= 1
        /\ concat_requests # <<>> =>
              /\ Len(encode_requests) = 2
              /\ IF IsLocal
                 THEN concat_requests[1].concat_list
                         = [k \in 1..2 |-> [file |-> encode_requests[k].out]]
                 ELSE [k \in 1..2 |-> concat_requests[1].inputs[k].uri]
                         = [k \in 1..2 |-> OutputUri(encode_requests[k].output_uri)]
        /\ (Returned /\ result = Some(TRUE)) => Len(concat_requests) = 1

----------------------------------------------------------------------------
(* C25 *)

\* A {"seconds", "nanos"} offset taken in whole milliseconds: the nearest one
NearestMs(offset) == offset.seconds * 1000 + (offset.nanos + 500000) \div 1000000

SplitOk(offset) == offset.seconds >= 0 /\ offset.nanos >= 0 /\ offset.nanos < 1000000000

----------------------------------------------------------------------------
(* C26 *)

\* C26: in the cloud pipeline the width and the height the concat job asks
\* for are the even-floored width and height every segment job of the same run
\* asks for, whatever the height of the source.
C26_ConcatSize ==
    IsCloud =>
        \A r \in 1..Len(concat_requests) :
            /\ concat_requests[r].width_pixels = FloorEven(IntDiv(CloudDims(info)[2] * 9, 16))
            /\ concat_requests[r].height_pixels = FloorEven(CloudDims(info)[2])
            /\ \A k \in 1..Len(encode_requests) :
                  /\ concat_requests[r].width_pixels = encode_requests[k].width_pixels
                  /\ concat_requests[r].height_pixels = encode_requests[k].height_pixels

\* A concat job after two segment jobs on the source of odd height 1081
C26_Witness ==
    /\ IsCloud
    /\ info = <<500, 1081>>
    /\ Len(encode_requests) = 2
    /\ Len(concat_requests) = 1
    /\ concat_requests[1].height_pixels = 1080
    /\ concat_requests[1].width_pixels = 608

----------------------------------------------------------------------------
(* C27 *)

\* C27: the wait for a cloud job is a sleep-and-recheck loop. Every step that
\* queries the state of a job and leaves the poller waiting for the same job
\* sleeps for the fixed interval before the next query can be made, so no two
\* status queries of one job follow each other without a sleep; the first
\* query comes before any sleep, and the time slept is a whole number of
\* intervals.
C27_SleepBetweenQueries ==
    [][ /\ (pc = "c_wait" /\ pc' = "c_wait") =>
              /\ Len(outcomes') = Len(outcomes)
              /\ outcomes'[Len(outcomes)] = "RUNNING"
              /\ elapsed' = elapsed + PollSleepSec
        /\ (pc = "c_wait_concat" /\ pc' = "c_wait_concat") =>
              /\ Len(concat_outcomes') = Len(concat_outcomes)
              /\ concat_outcomes'[Len(concat_outcomes)] = "RUNNING"
              /\ elapsed' = elapsed + PollSleepSec
        /\ (~Waiting /\ Waiting') => elapsed' = 0
        /\ Waiting => elapsed % PollSleepSec = 0 ]_vars

\* The second segment job has been queried twice and slept after each query
C27_Witness ==
    /\ IsCloud
    /\ pc = "c_wait"
    /\ outcomes = <<"SUCCEEDED", "RUNNING">>
    /\ elapsed = 2 * PollSleepSec

----------------------------------------------------------------------------
(* C28 *)

\* Some keyframe of the loaded list carries a malformed timestamp
MalformedKeyframe == crop_data # None /\ \E i \in 1..Len(Data) : ~WellFormed(Data[i].timestamp)

\* C28: every keyframe timestamp of a run is parsed before the first segment
\* encode is started (local) and before the source upload and the first job
\* submission (cloud): with a malformed timestamp in any keyframe, the last
\* one included, the run fails and no encode request is issued.
C28_ParsedBeforeEncode ==
    MalformedKeyframe =>
        /\ encode_requests = <<>>
        /\ uploads = 0
        /\ concat_requests = <<>>
        /\ ~Planned
        /\ Returned => result = Some(FALSE)

----------------------------------------------------------------------------
(* C29 *)

\* C29: every iteration of the poll of a cloud job looks at the job state
\* before the deadline. A status query is made in every iteration, so at
\* least one is made by every call, one with a timeout of 0 included; a job
\* seen SUCCEEDED is reported as success and one seen FAILED as failure, also
\* when the deadline has passed; the timeout is raised only for a job last
\* seen in a non-terminal state.
C29_QueryBeforeDeadline ==
    [][ (mode = "wait" /\ pc = "w_loop") =>
            LET seen == outcomes'[Len(outcomes')]
            IN  /\ Len(outcomes') = Len(outcomes) + 1
                /\ seen = "SUCCEEDED" => (pc' = "returned" /\ error' = None)
                /\ seen = "FAILED" => (pc' = "crashed" /\ error' = Some("RuntimeError"))
                /\ error' = Some("TimeoutError") =>
                      (pc' = "crashed" /\ seen = "RUNNING" /\ elapsed' > timeout_sec)
                /\ pc' # "w_loop" => Len(outcomes') >= 1 ]_vars

\* With a timeout of 0 the job was seen RUNNING, the loop slept, and the
\* second query, made after the deadline, saw it SUCCEEDED: the call returned
C29_Witness ==
    /\ mode = "wait"
    /\ timeout_sec = 0
    /\ pc = "returned"
    /\ outcomes = <<"RUNNING", "SUCCEEDED">>
    /\ elapsed >= PollSleepSec

----------------------------------------------------------------------------
(* C30 *)

\* ensure_transcoder_enabled has returned True: the run is past line 50
EnsureSucceeded ==
    \/ pc \in {"c_analyze", "c_generate", "c_plan", "c_upload", "c_submit", "c_wait",
               "c_wait_concat", "c_download"}
    \/ info # None
    \/ crop_data # None
    \/ uploads > 0
    \/ (Returned /\ result = Some(TRUE))

\* The lookup of the gcloud tool found none
GcloudAbsent == \E i \in 1..Len(gcloud_calls) : gcloud_calls[i] = <<"which", FALSE>>

====
